---- MODULE Spec2Model ----
(***************************************************************************)
(* A model of project-brain-bot: the document chunker                      *)
(* (src/sync/chunking.py), the vector store wrapper                        *)
(* (src/retrieval/vectorstore.py), the RAG query engine                    *)
(* (src/retrieval/query.py) and the per-source sync pipeline               *)
(* (src/sync/sources/*.py).                                                *)
(*                                                                         *)
(* Texts.  A text is a record [sents, plain]: sents is the sequence of     *)
(* sentence units that _split_into_sentences finds in it, plain says that  *)
(* the units are separated by single spaces only (no paragraph break, no   *)
(* leading or trailing white space), so that " ".join(units) is the text   *)
(* itself.  The empty string is [sents |-> <<>>, plain |-> TRUE]; a text   *)
(* of white space only is [sents |-> <<>>, plain |-> FALSE].               *)
(* A sentence unit is [n, w]: n words of w tokens each.                    *)
(*                                                                         *)
(* Tokenizer.  tiktoken is an external library; it is modelled as an       *)
(* additive length: a word of a [n, w] unit counts w tokens, the unit n*w, *)
(* a word followed by a space w + space_tok, and the white space of a      *)
(* text that is not plain one more token.                                  *)
(***************************************************************************)
EXTENDS Integers, Sequences, FiniteSets, TLC

VARIABLES
    \* ---- settings (src/config.py) ----
    chunk_size,            \* Settings.chunk_size
    chunk_overlap,         \* Settings.chunk_overlap
    retrieval_top_k,       \* Settings.retrieval_top_k
    similarity_threshold,  \* Settings.similarity_threshold, in tenths
    space_tok,             \* tokens a trailing space adds to a word (tokenizer)
    \* ---- one call of DocumentChunker.chunk_document ----
    doc,                   \* the text handed to chunk_document
    cpc,                   \* "off" | "ready" | "done"
    chunks_out,            \* the list[Chunk] it returned
    \* ---- one call of VectorStore.query ----
    vs_pc,                 \* "off" | "ready" | "done"
    vs_in,                 \* the query text and what the services answer
    vs_out,                \* [raised, docs]: the exception or the list returned
    \* ---- one call of RAGQueryEngine.query ----
    q_pc,                  \* position in query()
    use_live_context,      \* the argument of query()
    q_sources,             \* sources (the classification)
    search_queries,        \* search_queries
    q_i,                   \* index of the next search query (1-based)
    all_results,           \* all_results
    seen_ids,              \* seen_ids
    last_skipped,          \* history: the last result the seen_ids test dropped
    top_results,           \* top_results
    live_documents,        \* live_documents
    live_fetched,          \* whether _get_live_context was called
    q_result,              \* the dict query() returned, or "none"
    q_error,               \* the exception query() raised, or "none"
    \* ---- the index and the sync pipeline ----
    index,                 \* the entries of the vector index (namespace)
    batch_size,            \* the batch_size of upsert_documents
    sync_pc,               \* "off" | "idle" | "fetch" | "upsert"
    sync_source,           \* the source being synced or synced last
    sync_documents,        \* documents: the chunks prepared for the upsert
    sync_count,            \* what the last sync returned
    n_syncs,               \* syncs started so far
    sync_mode,             \* "single": the syncs alone; "full": run_full_sync
    sync_outcome,          \* how the last sync ended, "running" during one
    sync_delete,           \* the delete of the running or last sync: "none" | "ok" | "failed"
    sync_results,          \* results of run_full_sync: [source, count] in call order
    upsert_call,           \* history: the last call of upsert_documents
    \* ---- one call of the classifier or of generate_search_queries ----
    llm_pc,                \* "off" | "ready" | "done"
    llm_op,                \* "classify" | "generate_search_queries"
    llm_resp,              \* what the model answers
    llm_out,               \* what the call returned or raised
    \* ---- one call of a function: embed_batch, truncate_text, ... ----
    call_pc,               \* "off" | "ready" | "done"
    call_op,               \* the function called
    call_in,               \* its arguments and what its environment answers
    call_out,              \* what it returned or raised, and what it did
    \* ---- the Redis cache behind the cached decorator ----
    cache_store,           \* key -> the JSON text stored, or Absent
    cache_origin,          \* history: key -> the result whose write made the last entry
    cache_call,            \* history: the last call of a cached operation
    n_calls,               \* calls of cached operations so far
    \* ---- start_scheduler: the calling thread and the scheduler's timer ----
    sched_state,           \* "none" | "started"
    run_pc,                \* thread -> where its run_full_sync is
    run_i,                 \* thread -> sources its run_full_sync has completed
    n_fires,               \* timer-triggered runs so far
    \* ---- VectorStore.index, accessed by two threads ----
    store_index,           \* the _index field: "None" | "Index"
    pinecone_status,       \* the index at Pinecone: "absent" | "creating" | "ready"
    ix_pc,                 \* thread -> where its access of the property is
    ix_listed,             \* thread -> whether the list it got held the name
    ix_polls,              \* thread -> describe_index calls of its wait
    create_calls,          \* history: the create_index calls, each with what Pinecone had
    \* ---- a query() running beside the syncs ----
    cq,                    \* where it is, what it retrieved, and when
    \* ---- one call of RAGQueryEngine._get_live_context ----
    lc_pc,                 \* "off" | "loop" | "returned" | "raised"
    lc_sources,            \* the argument sources
    lc_outs,               \* what the client of each source answers
    lc_i,                  \* index of the next source (1-based)
    lc_documents,          \* documents
    \* ---- start_scheduler and stop_scheduler, called one after the other ----
    sd_global,             \* the module's _scheduler: 0 for None, or a scheduler
    sd_pc,                 \* where the call in progress is; "idle" between calls
    sd_state,              \* scheduler -> "new" | "running" | "shutdown"
    sd_jobs,               \* scheduler -> the number of its jobs with id full_sync
    sd_initial,            \* scheduler -> initial syncs run by the call that made it
    sd_log,                \* history: the finished calls, each with _scheduler before it
    \* ---- a lazily created module-level instance and its getter ----
    sg_instance,           \* the module's global: 0 for None, or an instance
    sg_pc,                 \* thread -> where its call of the getter is
    sg_local,              \* thread -> the instance its call constructed, or 0
    sg_ret,                \* thread -> the instances its calls returned
    sg_made                \* instances constructed so far

settingVars == <<chunk_size, chunk_overlap, retrieval_top_k, similarity_threshold, space_tok>>

chunkVars == <<doc, cpc, chunks_out>>

vsVars == <<vs_pc, vs_in, vs_out>>

queryVars == <<q_pc, use_live_context, q_sources, search_queries, q_i, all_results, seen_ids,
               last_skipped, top_results, live_documents, live_fetched, q_result,
               q_error>>

syncVars == <<index, batch_size, sync_pc, sync_source, sync_documents, sync_count, n_syncs,
              sync_mode, sync_outcome, sync_delete, sync_results, upsert_call>>

llmVars == <<llm_pc, llm_op, llm_resp, llm_out>>

callVars == <<call_pc, call_op, call_in, call_out>>

\* the components added to the first six
cacheVars == <<cache_store, cache_origin, cache_call, n_calls>>

schedVars == <<sched_state, run_pc, run_i, n_fires>>

ixVars == <<store_index, pinecone_status, ix_pc, ix_listed, ix_polls, create_calls>>

cqVars == <<cq>>

liveVars == <<lc_pc, lc_sources, lc_outs, lc_i, lc_documents>>

lifeVars == <<sd_global, sd_pc, sd_state, sd_jobs, sd_initial, sd_log>>

singleVars == <<sg_instance, sg_pc, sg_local, sg_ret, sg_made>>

extVars == <<callVars, cacheVars, schedVars, ixVars, cqVars, liveVars, lifeVars, singleVars>>

\* what an action of one added component leaves alone
extButCall == <<cacheVars, schedVars, ixVars, cqVars, liveVars, lifeVars, singleVars>>

extButCache == <<callVars, schedVars, ixVars, cqVars, liveVars, lifeVars, singleVars>>

extButSched == <<callVars, cacheVars, ixVars, cqVars, liveVars, lifeVars, singleVars>>

extButIx == <<callVars, cacheVars, schedVars, cqVars, liveVars, lifeVars, singleVars>>

extButCq == <<callVars, cacheVars, schedVars, ixVars, liveVars, lifeVars, singleVars>>

extButLive == <<callVars, cacheVars, schedVars, ixVars, cqVars, lifeVars, singleVars>>

extButLife == <<callVars, cacheVars, schedVars, ixVars, cqVars, liveVars, singleVars>>

extButSingle == <<callVars, cacheVars, schedVars, ixVars, cqVars, liveVars, lifeVars>>

coreVars == <<settingVars, chunkVars, vsVars, queryVars, syncVars, llmVars>>

vars == <<coreVars, extVars>>

(***************************************************************************)
(* Bounds of the chunker inputs.                                           *)
(***************************************************************************)
MaxSentences == 3
MaxWords == 2
MaxChunkSize == 3

\* the token counts a word may have
WordTokens == {1, 2}

Sentence == [n : 1..MaxWords, w : WordTokens]

RECURSIVE SeqsUpTo(_, _)
SeqsUpTo(S, k) ==
    IF k = 0 THEN {<<>>}
    ELSE LET shorter == SeqsUpTo(S, k - 1)
         IN  shorter \cup {Append(q, x) : q \in {r \in shorter : Len(r) = k - 1}, x \in S}

Texts == [sents : SeqsUpTo(Sentence, MaxSentences), plain : BOOLEAN]

RECURSIVE SumSeq(_)
SumSeq(q) == IF q = <<>> THEN 0 ELSE Head(q) + SumSeq(Tail(q))

(***************************************************************************)
(* Units.  current_chunk and word_chunk are lists of strings; a string is  *)
(* a whole sentence unit of the text, [s |-> i, k |-> 0], or the k-th word *)
(* of sentence i, [s |-> i, k |-> k].                                      *)
(***************************************************************************)
Whole(i) == [s |-> i, k |-> 0]

Word(i, k) == [s |-> i, k |-> k]

AllWhole(txt) == [i \in 1..Len(txt.sents) |-> Whole(i)]

\* DocumentChunker._count_tokens on a unit of txt
count_tokens(txt, u) ==
    IF u.k = 0 THEN txt.sents[u.s].n * txt.sents[u.s].w ELSE txt.sents[u.s].w

\* _count_tokens(word + " ")
count_tokens_spaced(txt, u) == txt.sents[u.s].w + space_tok

\* _count_tokens(text) of the whole text
count_tokens_text(txt) ==
    SumSeq([i \in 1..Len(txt.sents) |-> count_tokens(txt, Whole(i))])
        + (IF txt.plain THEN 0 ELSE 1)

\* the text of a chunk: the units it holds and how they are separated.
\* " ".join(units) separates by single spaces ("normal"); the text itself
\* keeps its own white space ("original") unless it is plain.
Joined(units) == [units |-> units, ws |-> "normal"]

Verbatim(txt) == [units |-> AllWhole(txt), ws |-> IF txt.plain THEN "normal" ELSE "original"]

(***************************************************************************)
(* _split_text, lines 72-91: an oversized sentence is split by words.      *)
(***************************************************************************)
RECURSIVE SplitWords(_, _, _, _, _, _)
SplitWords(txt, i, k, chunks, word_chunk, word_tokens) ==
    IF k > txt.sents[i].n
    THEN [chunks |-> chunks, word_chunk |-> word_chunk, word_tokens |-> word_tokens]
    ELSE LET word_token_count == count_tokens_spaced(txt, Word(i, k))
         IN  IF word_tokens + word_token_count > chunk_size
             THEN SplitWords(txt, i, k + 1,
                             IF word_chunk # <<>> THEN Append(chunks, Joined(word_chunk)) ELSE chunks,
                             <<Word(i, k)>>, word_token_count)
             ELSE SplitWords(txt, i, k + 1, chunks,
                             Append(word_chunk, Word(i, k)), word_tokens + word_token_count)

(***************************************************************************)
(* _split_text, lines 99-106: the trailing overlap of the closed chunk.    *)
(* j walks current_chunk backwards; acc is overlap_sentences.              *)
(***************************************************************************)
\* a variant of Overlap that tests the budget before it adds the unit
RECURSIVE OverlapTestFirst(_, _, _, _, _)
OverlapTestFirst(txt, current_chunk, j, acc, overlap_tokens) ==
    IF j = 0 THEN acc
    ELSE IF overlap_tokens >= chunk_overlap THEN acc
    ELSE OverlapTestFirst(txt, current_chunk, j - 1, <<current_chunk[j]>> \o acc,
                          overlap_tokens + count_tokens(txt, current_chunk[j]))

RECURSIVE Overlap(_, _, _, _, _)
Overlap(txt, current_chunk, j, acc, overlap_tokens) ==
    IF j = 0 THEN acc
    ELSE LET s_tokens == count_tokens(txt, current_chunk[j])
         IN  IF overlap_tokens + s_tokens > chunk_overlap THEN acc
             ELSE Overlap(txt, current_chunk, j - 1, <<current_chunk[j]>> \o acc,
                          overlap_tokens + s_tokens)

UnitTokens(txt, units) == SumSeq([j \in 1..Len(units) |-> count_tokens(txt, units[j])])

(***************************************************************************)
(* _split_text, lines 62-115: one iteration of the loop over sentences.    *)
(* st = [chunks, current_chunk, current_tokens].                           *)
(***************************************************************************)
SplitStep(txt, i, st) ==
    LET sentence_tokens == count_tokens(txt, Whole(i))
    IN  IF sentence_tokens > chunk_size
        THEN LET flushed == IF st.current_chunk # <<>>
                            THEN Append(st.chunks, Joined(st.current_chunk))
                            ELSE st.chunks
                 r == SplitWords(txt, i, 1, flushed, <<>>, 0)
             IN  IF r.word_chunk # <<>>
                 THEN [chunks |-> r.chunks, current_chunk |-> r.word_chunk,
                       current_tokens |-> r.word_tokens]
                 ELSE [chunks |-> r.chunks, current_chunk |-> <<>>,
                       current_tokens |-> IF st.current_chunk # <<>> THEN 0
                                          ELSE st.current_tokens]
        ELSE IF st.current_tokens + sentence_tokens > chunk_size
        THEN IF st.current_chunk # <<>>
             THEN LET overlap_sentences ==
                          Overlap(txt, st.current_chunk, Len(st.current_chunk), <<>>, 0)
                  IN  [chunks |-> Append(st.chunks, Joined(st.current_chunk)),
                       current_chunk |-> Append(overlap_sentences, Whole(i)),
                       current_tokens |-> UnitTokens(txt, overlap_sentences) + sentence_tokens]
             ELSE [chunks |-> st.chunks, current_chunk |-> <<Whole(i)>>,
                   current_tokens |-> sentence_tokens]
        ELSE [chunks |-> st.chunks, current_chunk |-> Append(st.current_chunk, Whole(i)),
              current_tokens |-> st.current_tokens + sentence_tokens]

RECURSIVE SplitLoop(_, _, _)
SplitLoop(txt, i, st) ==
    IF i > Len(txt.sents) THEN st ELSE SplitLoop(txt, i + 1, SplitStep(txt, i, st))

\* a variant of SplitLast that forgets the pending chunk
SplitLastDropped(st) == st.chunks

\* lines 117-121: the last chunk
SplitLast(st) ==
    IF st.current_chunk # <<>> THEN Append(st.chunks, Joined(st.current_chunk)) ELSE st.chunks

\* a variant of split_text without the single-chunk shortcut of lines 52-54
split_text_always_loop(txt) ==
    IF txt.sents = <<>> /\ txt.plain THEN <<>>
    ELSE SplitLast(SplitLoop(txt, 1,
                             [chunks |-> <<>>, current_chunk |-> <<>>, current_tokens |-> 0]))

\* DocumentChunker._split_text
split_text(txt) ==
    IF txt.sents = <<>> /\ txt.plain THEN <<>>
    ELSE IF count_tokens_text(txt) <= chunk_size THEN <<Verbatim(txt)>>
    ELSE SplitLast(SplitLoop(txt, 1,
                             [chunks |-> <<>>, current_chunk |-> <<>>, current_tokens |-> 0]))

\* f"{doc_id}-chunk-{i}"
ChunkId(doc_id, i) == <<doc_id, "chunk", i>>

\* a variant of chunk_document that numbers total_chunks as it goes
chunk_document_running_total(doc_id, txt, source) ==
    LET text_chunks == split_text(txt)
    IN  [j \in 1..Len(text_chunks) |->
            [id |-> ChunkId(doc_id, j - 1),
             text |-> text_chunks[j],
             source |-> source,
             chunk_index |-> j - 1,
             total_chunks |-> j]]

\* DocumentChunker.chunk_document; enumerate() counts from 0
chunk_document(doc_id, txt, source) ==
    LET text_chunks == split_text(txt)
    IN  [j \in 1..Len(text_chunks) |->
            [id |-> ChunkId(doc_id, j - 1),
             text |-> text_chunks[j],
             source |-> source,
             chunk_index |-> j - 1,
             total_chunks |-> Len(text_chunks)]]

(***************************************************************************)
(* Vector store (src/retrieval/vectorstore.py).  Scores are in tenths      *)
(* (0.7 is 7).  The index is an external service: what it reports for a    *)
(* search is any list of at most top_k matches with distinct ids.          *)
(***************************************************************************)
MaxTopK == 3

Scores == {5, 7, 9}

Ids == {"a", "b", "c"}

\* the url an entry's metadata holds ("none": no url); a and c are chunks
\* of one document
EntryUrl(id) == IF id = "b" THEN "none" ELSE "u1"

Match == {[id |-> i, score |-> sc, metadata |-> [url |-> EntryUrl(i)]] : i \in Ids, sc \in Scores}

DistinctIds(q) == \A j, m \in 1..Len(q) : q[j].id = q[m].id => j = m

\* every list the index may report, and those within top_k
AllMatchLists == {q \in SeqsUpTo(Match, MaxTopK) : DistinctIds(q)}

MatchLists(top_k) == {q \in AllMatchLists : Len(q) <= top_k}

EmbedOutcomes == {"ok", "empty_data", "error"}

IndexOutcomes == {"ok", "init_error", "query_error"}

\* EmbeddingClient.embed_text: [raised, vector]
embed_text(blank, outcome) ==
    IF blank THEN [raised |-> FALSE, vector |-> "zero"]
    ELSE IF outcome = "error" THEN [raised |-> TRUE, vector |-> "none"]
    ELSE IF outcome = "empty_data" THEN [raised |-> FALSE, vector |-> "zero"]
    ELSE [raised |-> FALSE, vector |-> "embedding"]

\* a variant of FilterMatches with a strict comparison
RECURSIVE FilterMatchesStrict(_, _)
FilterMatchesStrict(matches, documents) ==
    IF matches = <<>> THEN documents
    ELSE FilterMatchesStrict(Tail(matches),
                             IF Head(matches).score > similarity_threshold
                             THEN Append(documents, Head(matches))
                             ELSE documents)

\* VectorStore.query, lines 137-145: the loop over results.matches
RECURSIVE FilterMatches(_, _)
FilterMatches(matches, documents) ==
    IF matches = <<>> THEN documents
    ELSE FilterMatches(Tail(matches),
                       IF Head(matches).score >= similarity_threshold
                       THEN Append(documents,
                                   [id |-> Head(matches).id, score |-> Head(matches).score,
                                    metadata |-> Head(matches).metadata])
                       ELSE documents)

\* VectorStore.query: embed_text is called before the try block (line 126);
\* the index property and index.query are inside it (lines 128-156).
VectorStoreQuery(in) ==
    LET e == embed_text(in.blank, in.embed)
    IN  IF e.raised THEN [raised |-> TRUE, docs |-> <<>>]
        ELSE IF in.index # "ok" THEN [raised |-> FALSE, docs |-> <<>>]
        ELSE [raised |-> FALSE, docs |-> FilterMatches(in.matches, <<>>)]

VsInputs(top_k) ==
    [blank : BOOLEAN, embed : EmbedOutcomes, index : IndexOutcomes, matches : MatchLists(top_k)]

(***************************************************************************)
(* Question classifier (src/llm/classifier.py).  A response of the model   *)
(* is [kind, sources]:                                                     *)
(*   api_error        messages.create raises anthropic.APIError            *)
(*   not_json         json.loads raises JSONDecodeError                    *)
(*   json_not_object  the JSON is a list, string or number                 *)
(*   sources_missing  an object without "sources"                          *)
(*   sources_string   "sources" is a string                                *)
(*   sources_scalar   "sources" is null or a number                        *)
(*   sources_list     "sources" is the list in the sources field           *)
(***************************************************************************)
ALL_SOURCES == <<"linear", "notion", "github", "mixpanel", "datadog">>

\* a variant of KnownSource that accepts every tag
KnownSourceAny(t) == TRUE

KnownSource(t) == \E j \in 1..Len(ALL_SOURCES) : ALL_SOURCES[j] = t

DefaultSources == <<"notion", "linear">>

Returned(v) == [raised |-> "none", value |-> v]

Raised(e) == [raised |-> e, value |-> "none"]

\* QuestionClassifier.classify without its cache wrapper
classify(resp) ==
    CASE resp.kind = "api_error" -> Returned(DefaultSources)
      [] resp.kind = "not_json" -> Returned(DefaultSources)
      [] resp.kind = "json_not_object" -> Raised("AttributeError")
      [] resp.kind = "sources_scalar" -> Raised("TypeError")
      [] resp.kind \in {"sources_missing", "sources_string"} -> Returned(DefaultSources)
      [] OTHER ->
           LET valid_sources == SelectSeq(resp.sources, KnownSource)
           IN  IF valid_sources = <<>> THEN Returned(DefaultSources)
               ELSE Returned(valid_sources)

Resp(kind) == [kind |-> kind, sources |-> <<>>]

\* the responses the query specification draws from
QueryClassifyResponses ==
    {Resp("api_error"), Resp("not_json"), Resp("json_not_object"), Resp("sources_scalar"),
     Resp("sources_missing"),
     [kind |-> "sources_list", sources |-> <<"bogus">>],
     [kind |-> "sources_list", sources |-> <<"github">>],
     [kind |-> "sources_list", sources |-> <<"linear", "bogus", "datadog">>]}

(***************************************************************************)
(* ClaudeClient.generate_search_queries (src/llm/client.py).  A response   *)
(* is [kind, queries]: api_error, not_json, not_string_list (valid JSON    *)
(* that is no list of strings) or string_list.                             *)
(***************************************************************************)
Take(q, n) == IF Len(q) <= n THEN q ELSE SubSeq(q, 1, n)

generate_search_queries(resp) ==
    IF resp.kind = "string_list" THEN Take(resp.queries, 3) ELSE <<"question">>

SearchQueryResponses ==
    {[kind |-> k, queries |-> <<>>] : k \in {"api_error", "not_json", "not_string_list"}}
        \cup {[kind |-> "string_list", queries |-> q] :
                 q \in {<<>>, <<"q1", "q1">>, <<"q1", "q2", "q1", "q2">>}}

(***************************************************************************)
(* RAGQueryEngine.query, lines 142-146: the results of one search are      *)
(* added to all_results unless their id was seen.                          *)
(* acc = [all_results, seen_ids, last_skipped].                            *)
(***************************************************************************)
\* no result
NoResult == [id |-> "none", score |-> 0, metadata |-> [url |-> "none"]]

\* a variant of Accumulate that forgets to record the id
RECURSIVE AccumulateNoSeen(_, _)
AccumulateNoSeen(results, acc) ==
    IF results = <<>> THEN acc
    ELSE AccumulateNoSeen(Tail(results),
                          [all_results |-> Append(acc.all_results, Head(results)),
                           seen_ids |-> acc.seen_ids,
                           last_skipped |-> acc.last_skipped])

\* a variant of Accumulate in which the last occurrence of an id wins
RECURSIVE AccumulateKeepLast(_, _)
AccumulateKeepLast(results, acc) ==
    IF results = <<>> THEN acc
    ELSE LET result == Head(results)
         IN  AccumulateKeepLast(Tail(results),
                        IF result.id \notin acc.seen_ids
                        THEN [all_results |-> Append(acc.all_results, result),
                              seen_ids |-> acc.seen_ids \cup {result.id},
                              last_skipped |-> acc.last_skipped]
                        ELSE [all_results |->
                                  [j \in 1..Len(acc.all_results) |->
                                      IF acc.all_results[j].id = result.id THEN result
                                      ELSE acc.all_results[j]],
                              seen_ids |-> acc.seen_ids,
                              last_skipped |-> result])

RECURSIVE Accumulate(_, _)
Accumulate(results, acc) ==
    IF results = <<>> THEN acc
    ELSE LET result == Head(results)
         IN  Accumulate(Tail(results),
                        IF result.id \notin acc.seen_ids
                        THEN [all_results |-> Append(acc.all_results, result),
                              seen_ids |-> acc.seen_ids \cup {result.id},
                              last_skipped |-> acc.last_skipped]
                        ELSE [all_results |-> acc.all_results,
                              seen_ids |-> acc.seen_ids,
                              last_skipped |-> result])

\* list.sort(key=score, reverse=True): stable, equal scores keep their order
RECURSIVE InsertByScore(_, _)
InsertByScore(sorted, x) ==
    IF sorted = <<>> THEN <<x>>
    ELSE IF Head(sorted).score >= x.score THEN <<Head(sorted)>> \o InsertByScore(Tail(sorted), x)
    ELSE <<x>> \o sorted

RECURSIVE SortByScore(_)
SortByScore(q) ==
    IF q = <<>> THEN <<>> ELSE InsertByScore(SortByScore(SubSeq(q, 1, Len(q) - 1)), q[Len(q)])

\* a variant of TopResults that slices before it sorts
TopResultsSliceFirst(results) == SortByScore(Take(results, retrieval_top_k))

\* lines 148-149
TopResults(results) == Take(SortByScore(results), retrieval_top_k)

(***************************************************************************)
(* RAGQueryEngine._get_live_context.  What one source client answers:      *)
(*   error   the call raises (caught at line 72)                           *)
(*   empty   an empty list                                                 *)
(*   docs    two ContextDocuments, the first with a url                    *)
(*   many    as many ContextDocuments as the limit allows, each with a url *)
(*   cached  a hit of the client's cache: json.loads of what               *)
(*           json.dumps(result, default=str) stored, a list of strings     *)
(* For linear, get_recent_issues is asked when search_issues gave nothing. *)
(***************************************************************************)
\* what the services answer to one search of query(): the embedding call
\* fails, the index fails, or the index reports at most MaxMatches matches
MaxMatches == 2

QuerySearchInputs ==
    {[blank |-> FALSE, embed |-> "error", index |-> "ok", matches |-> <<>>],
     [blank |-> FALSE, embed |-> "ok", index |-> "query_error", matches |-> <<>>]}
        \cup {[blank |-> FALSE, embed |-> "ok", index |-> "ok", matches |-> q] :
                 q \in {r \in AllMatchLists : Len(r) <= MaxMatches}}

LiveOutcomes == {"error", "empty", "docs", "many", "cached"}

\* lines 47, 54, 59: limit=5
LiveLimit == 5

\* the url of a source's first live document; the linear one is also the
\* url of indexed chunks
LiveUrl(source) ==
    CASE source = "linear" -> "u1"
      [] source = "notion" -> "u2"
      [] source = "github" -> "u3"
      [] source = "mixpanel" -> "u4"
      [] OTHER -> "u5"

\* the url of a source's n-th live document
LiveUrlN(source, n) == IF n = 1 THEN LiveUrl(source) ELSE source \o "/" \o ToString(n)

LiveDocs(source, outcome) ==
    CASE outcome = "many" ->
           [n \in 1..LiveLimit |-> [kind |-> "doc", source |-> source, url |-> LiveUrlN(source, n)]]
      [] outcome = "docs" ->
           <<[kind |-> "doc", source |-> source, url |-> LiveUrl(source)],
             [kind |-> "doc", source |-> source, url |-> "none"]>>
      [] outcome = "cached" -> <<[kind |-> "str", source |-> source, url |-> "none"]>>
      [] OTHER -> <<>>

\* line 49: get_recent_issues(limit=10)
RecentLimit == 10

\* what linear's get_recent_issues returns
RecentDocs(source, outcome) ==
    IF outcome = "many"
    THEN [n \in 1..RecentLimit |-> [kind |-> "doc", source |-> source, url |-> LiveUrlN(source, n)]]
    ELSE LiveDocs(source, outcome)

\* the answers of one source's client: o.first answers the search (or the
\* summary), o.second answers linear's get_recent_issues, which is called
\* only when the search returned nothing
LiveAnswers(source) ==
    {o \in [first : LiveOutcomes, second : LiveOutcomes] :
        o.second # "empty" => (source = "linear" /\ LiveDocs(source, o.first) = <<>>
                                  /\ o.first # "error")}

\* the documents one source adds; o = [first, second]
FetchLive(source, o) ==
    IF o.first = "error" THEN <<>>
    ELSE IF source = "linear" /\ LiveDocs(source, o.first) = <<>>
    THEN IF o.second = "error" THEN <<>> ELSE RecentDocs(source, o.second)
    ELSE LiveDocs(source, o.first)

RECURSIVE get_live_context(_, _, _)
get_live_context(sources, outs, j) ==
    IF j > Len(sources) THEN <<>>
    ELSE FetchLive(sources[j], outs[j]) \o get_live_context(sources, outs, j + 1)

\* line 153: fewer than 3 retrieved
LiveThreshold == 3

\* a variant of NeedsLiveContext that also fetches with exactly 3 retrieved
NeedsLiveContextWithThree(results) == use_live_context /\ Len(results) <= LiveThreshold

\* line 153: if use_live_context and len(top_results) < 3
NeedsLiveContext(results) == use_live_context /\ Len(results) < LiveThreshold

\* lines 169-177 and 187: the citation list
RECURSIVE RetrievedUrls(_)
RetrievedUrls(results) ==
    IF results = <<>> THEN <<>>
    ELSE (IF Head(results).metadata.url # "none" THEN <<Head(results).metadata.url>> ELSE <<>>)
             \o RetrievedUrls(Tail(results))

InSeq(x, q) == \E j \in 1..Len(q) : q[j] = x

\* a variant of AddLiveUrls without the membership test
RECURSIVE AddLiveUrlsAll(_, _)
AddLiveUrlsAll(source_urls, docs) ==
    IF docs = <<>> THEN source_urls
    ELSE AddLiveUrlsAll(IF Head(docs).url # "none" THEN Append(source_urls, Head(docs).url)
                        ELSE source_urls,
                        Tail(docs))

RECURSIVE AddLiveUrls(_, _)
AddLiveUrls(source_urls, docs) ==
    IF docs = <<>> THEN source_urls
    ELSE AddLiveUrls(IF Head(docs).url # "none" /\ ~InSeq(Head(docs).url, source_urls)
                     THEN Append(source_urls, Head(docs).url)
                     ELSE source_urls,
                     Tail(docs))

\* line 162: the Live Context section renders live_documents[:5]
LiveRendered == 5

RenderedLive(docs) == Take(docs, LiveRendered)

MaxSources == 10

\* lines 185-190
QueryResult(answer) ==
    [answer |-> answer,
     sources |-> Take(AddLiveUrls(RetrievedUrls(top_results), live_documents), MaxSources),
     context_documents |-> Len(top_results) + Len(live_documents),
     classified_sources |-> q_sources]

(***************************************************************************)
(* One call of RAGQueryEngine.query(question), step by step.  The cache    *)
(* wrapper of query() finds no entry for the question (a miss) or fails to *)
(* read (RedisError, caught): either way query() runs; a failed write      *)
(* after it is caught too.                                                 *)
(***************************************************************************)
QueryRaise(e) ==
    /\ q_pc' = "raised"
    /\ q_error' = e
    /\ UNCHANGED <<use_live_context, q_sources, search_queries, q_i, all_results, seen_ids,
                   last_skipped, top_results, live_documents, live_fetched, q_result>>

\* line 122: sources = self.classifier.classify(question)
QueryClassify ==
    /\ q_pc = "classify"
    /\ \E resp \in QueryClassifyResponses :
           LET r == classify(resp)
           IN  IF r.raised # "none" THEN QueryRaise(r.raised)
               ELSE /\ q_sources' = r.value
                    /\ q_pc' = "generate_queries"
                    /\ UNCHANGED <<use_live_context, search_queries, q_i, all_results, seen_ids,
                                   last_skipped, top_results, live_documents, live_fetched, q_result, q_error>>
    /\ UNCHANGED <<settingVars, chunkVars, vsVars, syncVars, llmVars, extVars>>

\* line 126: search_queries = self.claude_client.generate_search_queries(question)
QueryGenerateSearchQueries ==
    /\ q_pc = "generate_queries"
    /\ \E resp \in SearchQueryResponses :
           search_queries' = generate_search_queries(resp)
    /\ q_i' = 1
    /\ q_pc' = "search"
    /\ UNCHANGED <<use_live_context, q_sources, all_results, seen_ids, last_skipped, top_results,
                   live_documents, live_fetched, q_result, q_error>>
    /\ UNCHANGED <<settingVars, chunkVars, vsVars, syncVars, llmVars, extVars>>

\* lines 132-145: one iteration of the loop over search_queries
QueryVectorSearch ==
    /\ q_pc = "search"
    /\ q_i <= Len(search_queries)
    /\ \E in \in QuerySearchInputs :
           /\ Len(in.matches) <= retrieval_top_k
           /\ LET r == VectorStoreQuery(in)
                  acc == Accumulate(r.docs, [all_results |-> all_results, seen_ids |-> seen_ids,
                                             last_skipped |-> last_skipped])
              IN  IF r.raised THEN QueryRaise("EmbeddingError")
                  ELSE /\ all_results' = acc.all_results
                       /\ seen_ids' = acc.seen_ids
                       /\ last_skipped' = acc.last_skipped
                       /\ q_i' = q_i + 1
                       /\ UNCHANGED <<q_pc, use_live_context, q_sources, search_queries,
                                      top_results, live_documents, live_fetched, q_result, q_error>>
    /\ UNCHANGED <<settingVars, chunkVars, vsVars, syncVars, llmVars, extVars>>

\* lines 147-154: rank, truncate, decide on live context
QueryRank ==
    /\ q_pc = "search"
    /\ q_i > Len(search_queries)
    /\ top_results' = TopResults(all_results)
    /\ q_pc' = IF NeedsLiveContext(top_results') THEN "live" ELSE "answer"
    /\ UNCHANGED <<use_live_context, q_sources, search_queries, q_i, all_results, seen_ids,
                   last_skipped, live_documents, live_fetched, q_result, q_error>>
    /\ UNCHANGED <<settingVars, chunkVars, vsVars, syncVars, llmVars, extVars>>

\* line 154: live_documents = self._get_live_context(sources, question)
QueryLiveContext ==
    /\ q_pc = "live"
    /\ \E outs \in [1..Len(q_sources) -> [first : LiveOutcomes, second : LiveOutcomes]] :
           /\ \A j \in 1..Len(q_sources) : outs[j] \in LiveAnswers(q_sources[j])
           /\ live_documents' = get_live_context(q_sources, outs, 1)
    /\ live_fetched' = TRUE
    /\ q_pc' = "answer"
    /\ UNCHANGED <<use_live_context, q_sources, search_queries, q_i, all_results, seen_ids,
                   last_skipped, top_results, q_result, q_error>>
    /\ UNCHANGED <<settingVars, chunkVars, vsVars, syncVars, llmVars, extVars>>

\* lines 156-190: format the context (doc.to_context_string() for the first
\* five live documents), generate the answer (the API error is caught in
\* generate_response), collect the urls (doc.url for every live document).
QueryAnswer ==
    /\ q_pc = "answer"
    /\ IF \E j \in 1..Len(live_documents) : live_documents[j].kind = "str"
       THEN QueryRaise("AttributeError")
       ELSE /\ \E answer \in {"answer", "apology"} : q_result' = QueryResult(answer)
            /\ q_pc' = "returned"
            /\ UNCHANGED <<use_live_context, q_sources, search_queries, q_i, all_results,
                           seen_ids, last_skipped, top_results, live_documents, live_fetched, q_error>>
    /\ UNCHANGED <<settingVars, chunkVars, vsVars, syncVars, llmVars, extVars>>

(***************************************************************************)
(* The answers of the model, for one call of classify and one call of      *)
(* generate_search_queries.  For classify, besides the kinds above:        *)
(*   sources_dict   "sources" is an object; iterating it yields its keys,  *)
(*                  kept in the sources field                              *)
(***************************************************************************)
MaxTags == 5

MaxQueries == 4

Tags == {"linear", "notion", "github", "mixpanel", "datadog", "bogus"}

ClassifyResponses ==
    {Resp(k) : k \in {"api_error", "not_json", "json_not_object", "sources_missing",
                      "sources_string", "sources_scalar"}}
        \cup {[kind |-> "sources_list", sources |-> q] : q \in SeqsUpTo(Tags, MaxTags)}
        \cup {[kind |-> "sources_dict", sources |-> <<t>>] : t \in Tags}

GenerateResponses ==
    {[kind |-> k, queries |-> <<>>] : k \in {"api_error", "not_json", "not_string_list"}}
        \cup {[kind |-> "string_list", queries |-> q] : q \in SeqsUpTo({"q1", "q2"}, MaxQueries)}

\* classify(question), the cache holding no entry for the question
LlmClassify ==
    /\ llm_pc = "ready"
    /\ llm_op = "classify"
    /\ llm_out' = classify(llm_resp)
    /\ llm_pc' = "done"
    /\ UNCHANGED <<llm_op, llm_resp>>
    /\ UNCHANGED <<settingVars, chunkVars, vsVars, queryVars, syncVars, extVars>>

\* generate_search_queries(question)
LlmGenerateSearchQueries ==
    /\ llm_pc = "ready"
    /\ llm_op = "generate_search_queries"
    /\ llm_out' = Returned(generate_search_queries(llm_resp))
    /\ llm_pc' = "done"
    /\ UNCHANGED <<llm_op, llm_resp>>
    /\ UNCHANGED <<settingVars, chunkVars, vsVars, queryVars, syncVars, extVars>>

(***************************************************************************)
(* The cached decorator (src/utils/cache.py).  A Python value is [t, v]:   *)
(*   str   a string v                                                      *)
(*   num   a number v                                                      *)
(*   list  the sequence v of values                                        *)
(*   dict  the sequence v of the values of its keys (the keys are fixed)   *)
(*   obj   a ContextDocument named v                                       *)
(* The key of an entry is made of the prefix and the arguments; each       *)
(* operation is called with one list of arguments, so the prefix stands    *)
(* for the key.                                                            *)
(***************************************************************************)
MaxCalls == 3

JStr(s) == [t |-> "str", v |-> s]

JNum(n) == [t |-> "num", v |-> n]

JList(q) == [t |-> "list", v |-> q]

JDict(q) == [t |-> "dict", v |-> q]

JObj(name) == [t |-> "obj", v |-> name]

\* no entry under the key; no result
Absent == [t |-> "absent", v |-> <<>>]

\* json.loads(json.dumps(value, default=str)): what is read back from the
\* text that is stored.  An object json cannot write is replaced by str()
\* of it.
RECURSIVE Jsonify(_)
Jsonify(value) ==
    CASE value.t = "obj" -> JStr("ContextDocument(id='" \o value.v \o "')")
      [] value.t \in {"list", "dict"} ->
           [t |-> value.t, v |-> [j \in 1..Len(value.v) |-> Jsonify(value.v[j])]]
      [] OTHER -> value

\* the prefixes of classify, RAGQueryEngine.query and
\* LinearClient.get_recent_issues
CachePrefixes == {"classify", "rag_query", "linear_issues"}

\* what the wrapped function may return
FuncResults(prefix) ==
    CASE prefix = "classify" ->
           {JList(<<JStr("notion"), JStr("linear")>>), JList(<<JStr("github")>>)}
      [] prefix = "rag_query" ->
           {JDict(<<JStr("answer"), JList(<<JStr("u1")>>), JNum(1), JList(<<JStr("github")>>)>>),
            JDict(<<JStr("apology"), JList(<<>>), JNum(0), JList(<<JStr("notion"), JStr("linear")>>)>>)}
      [] OTHER ->
           {JList(<<>>), JList(<<JObj("linear-1")>>), JList(<<JObj("linear-1"), JObj("linear-2")>>)}

\* no call yet
NoCall ==
    [prefix |-> "none", read |-> "none", invoked |-> 0, result |-> Absent, raised |-> "none",
     returned |-> Absent, write |-> "none", entry |-> Absent]

\* what classify returns after an API error or an unusable response
\* (classifier.py, lines 68, 82, 86) and what query returns when
\* generate_response answered with its apology
FallbackResult(prefix) ==
    IF prefix = "classify"
    THEN JList(<<JStr("notion"), JStr("linear")>>)
    ELSE JDict(<<JStr("apology"), JList(<<>>), JNum(0), JList(<<JStr("notion"), JStr("linear")>>)>>)

\* a variant of cached that stores no fallback
cached_real_only(prefix, entry, read_ok, func, write_ok) ==
    IF read_ok /\ entry # Absent
    THEN [prefix |-> prefix, read |-> "hit", invoked |-> 0, result |-> Absent, raised |-> "none",
          returned |-> entry, write |-> "none", entry |-> entry]
    ELSE IF func.raised # "none"
    THEN [prefix |-> prefix, read |-> IF read_ok THEN "miss" ELSE "error", invoked |-> 1,
          result |-> Absent, raised |-> func.raised, returned |-> Absent, write |-> "none",
          entry |-> entry]
    ELSE IF func.value = FallbackResult(prefix)
    THEN [prefix |-> prefix, read |-> IF read_ok THEN "miss" ELSE "error", invoked |-> 1,
          result |-> func.value, raised |-> "none", returned |-> func.value,
          write |-> "none", entry |-> entry]
    ELSE [prefix |-> prefix, read |-> IF read_ok THEN "miss" ELSE "error", invoked |-> 1,
          result |-> func.value, raised |-> "none", returned |-> func.value,
          write |-> IF write_ok THEN "ok" ELSE "error",
          entry |-> IF write_ok THEN Jsonify(func.value) ELSE entry]

\* a variant of cached that lets the error of the read reach the caller
cached_strict(prefix, entry, read_ok, func, write_ok) ==
    IF ~read_ok
    THEN [prefix |-> prefix, read |-> "error", invoked |-> 0, result |-> Absent,
          raised |-> "RedisError", returned |-> Absent, write |-> "none", entry |-> entry]
    ELSE IF entry # Absent
    THEN [prefix |-> prefix, read |-> "hit", invoked |-> 0, result |-> Absent, raised |-> "none",
          returned |-> entry, write |-> "none", entry |-> entry]
    ELSE IF func.raised # "none"
    THEN [prefix |-> prefix, read |-> "miss", invoked |-> 1,
          result |-> Absent, raised |-> func.raised, returned |-> Absent, write |-> "none",
          entry |-> entry]
    ELSE [prefix |-> prefix, read |-> "miss", invoked |-> 1,
          result |-> func.value, raised |-> "none", returned |-> func.value,
          write |-> IF write_ok THEN "ok" ELSE "error",
          entry |-> IF write_ok THEN Jsonify(func.value) ELSE entry]

\* cached.wrapper, lines 53-76.  entry is what Redis holds under the key,
\* read_ok and write_ok tell whether the get and the setex succeed, func is
\* what the wrapped function does when it is called.  The result tells
\* what the read gave, how often func was called, what it returned or
\* raised, what the wrapper returned, and the entry afterwards.
cached(prefix, entry, read_ok, func, write_ok) ==
    IF read_ok /\ entry # Absent
    THEN [prefix |-> prefix, read |-> "hit", invoked |-> 0, result |-> Absent, raised |-> "none",
          returned |-> entry, write |-> "none", entry |-> entry]
    ELSE IF func.raised # "none"
    THEN [prefix |-> prefix, read |-> IF read_ok THEN "miss" ELSE "error", invoked |-> 1,
          result |-> Absent, raised |-> func.raised, returned |-> Absent, write |-> "none",
          entry |-> entry]
    ELSE [prefix |-> prefix, read |-> IF read_ok THEN "miss" ELSE "error", invoked |-> 1,
          result |-> func.value, raised |-> "none", returned |-> func.value,
          write |-> IF write_ok THEN "ok" ELSE "error",
          entry |-> IF write_ok THEN Jsonify(func.value) ELSE entry]

\* what the wrapped function does: it returns a result or raises
FuncOutcomes(prefix) ==
    {[raised |-> "none", value |-> r] : r \in FuncResults(prefix)}
        \cup {[raised |-> "Exception", value |-> Absent]}

\* one call of a cached operation
CachedCall(prefix) ==
    /\ n_calls < MaxCalls
    /\ n_calls' = n_calls + 1
    /\ \E read_ok \in BOOLEAN, write_ok \in BOOLEAN, func \in FuncOutcomes(prefix) :
           LET c == cached(prefix, cache_store[prefix], read_ok, func, write_ok)
           IN  /\ cache_call' = c
               /\ cache_store' = [cache_store EXCEPT ![prefix] = c.entry]
               /\ cache_origin' = IF c.write = "ok"
                                  THEN [cache_origin EXCEPT ![prefix] = c.result]
                                  ELSE cache_origin
    /\ UNCHANGED <<coreVars, extButCache>>

\* the entry reaches its ttl
CacheExpire(prefix) ==
    /\ n_calls > 0
    /\ n_calls < MaxCalls
    /\ cache_store[prefix] # Absent
    /\ cache_store' = [cache_store EXCEPT ![prefix] = Absent]
    /\ UNCHANGED <<cache_origin, cache_call, n_calls>>
    /\ UNCHANGED <<coreVars, extButCache>>


(***************************************************************************)
(* src/bot/formatting.py: truncate_text.  A text is a sequence of          *)
(* characters.                                                             *)
(***************************************************************************)
\* Python's text[:k]: the first k characters, and for a negative k all but
\* the last -k
SliceTo(text, k) ==
    LET n == IF k >= 0
             THEN (IF k < Len(text) THEN k ELSE Len(text))
             ELSE (IF Len(text) + k > 0 THEN Len(text) + k ELSE 0)
    IN  SubSeq(text, 1, n)

Ellipsis == <<".", ".", ".">>

truncate_text(text, max_length) ==
    IF Len(text) <= max_length
    THEN text
    ELSE SliceTo(text, max_length - 3) \o Ellipsis

(***************************************************************************)
(* src/bot/handlers.py: _process_question, in the steps of its try         *)
(* statement.  call_in is the question's environment: what the engine      *)
(* does and the thinking message; call_out is what the handler did.        *)
(***************************************************************************)
AnswerMaxLength == 3000

ShortAnswer == <<"o", "k">>

LongAnswer == [i \in 1..(AnswerMaxLength + 1) |-> "A"]

\* what rag_engine.query does: a result, a result without an answer, or an
\* exception with its text
EngineOutcomes ==
    {[kind |-> "result", answer |-> a, exc |-> "none"] : a \in {ShortAnswer, LongAnswer}}
        \cup {[kind |-> "no_answer", answer |-> <<>>, exc |-> "'answer'"]}
        \cup {[kind |-> "raises", answer |-> <<>>, exc |-> e] :
                 e \in {"Test error", "Connection refused"}}

NoTs == "None"

ThinkingTs == {NoTs, "789.012", "790.001"}

ThreadTs == {NoTs, "123.456"}

SlackError == "message_not_found"

GenericError == "I encountered an error while searching for context. Please try again."

\* format_error_message: the warning section around the error given
format_error_message(error) == ":warning: *Something went wrong*\n" \o error

\* the message of the try branch and the one of the except branch
\* (chat_update takes no thread_ts)
AnswerMessage(thinking_ts, thread_ts, answer) ==
    [method |-> IF thinking_ts # NoTs THEN "chat_update" ELSE "chat_postMessage",
     ts |-> thinking_ts,
     thread_ts |-> IF thinking_ts # NoTs THEN "" ELSE thread_ts,
     kind |-> "answer",
     answer |-> answer,
     blocks |-> "",
     text |-> ""]

ErrorMessage(thinking_ts, thread_ts) ==
    [method |-> IF thinking_ts # NoTs THEN "chat_update" ELSE "chat_postMessage",
     ts |-> thinking_ts,
     thread_ts |-> IF thinking_ts # NoTs THEN "" ELSE thread_ts,
     kind |-> "error",
     answer |-> <<>>,
     blocks |-> format_error_message(GenericError),
     text |-> IF thinking_ts # NoTs THEN "Error processing question" ELSE ""]

\* lines 173-182: the engine's answer, truncated and formatted
ProcessQuery ==
    /\ call_op = "_process_question"
    /\ call_pc = "ready"
    /\ IF call_in.engine.kind = "result"
       THEN /\ call_pc' = "send"
            /\ call_out' = [call_out EXCEPT
                   !.answer = truncate_text(call_in.engine.answer, AnswerMaxLength)]
       ELSE /\ call_pc' = "except"
            /\ call_out' = [call_out EXCEPT !.exc = call_in.engine.exc]
    /\ UNCHANGED <<call_op, call_in>>
    /\ UNCHANGED <<coreVars, extButCall>>

\* lines 185-204: the Slack call of the try branch, accepted or failing
ProcessSend ==
    /\ call_op = "_process_question"
    /\ call_pc = "send"
    /\ \E accepted \in BOOLEAN :
           IF accepted
           THEN /\ call_pc' = "done"
                /\ call_out' = [call_out EXCEPT
                       !.sent = Append(@, AnswerMessage(call_in.thinking_ts, call_in.thread_ts, call_out.answer))]
           ELSE /\ call_pc' = "except"
                /\ call_out' = [call_out EXCEPT !.exc = SlackError]
    /\ UNCHANGED <<call_op, call_in>>
    /\ UNCHANGED <<coreVars, extButCall>>

\* lines 206-225: the except branch logs the exception and sends the
\* generic error; its Slack call is outside any try
ProcessExcept ==
    /\ call_op = "_process_question"
    /\ call_pc = "except"
    /\ \E accepted \in BOOLEAN :
           call_out' = [call_out EXCEPT
               !.log = Append(@, call_out.exc),
               !.sent = IF accepted THEN Append(@, ErrorMessage(call_in.thinking_ts, call_in.thread_ts)) ELSE @,
               !.raised = IF accepted THEN "none" ELSE SlackError]
    /\ call_pc' = "done"
    /\ UNCHANGED <<call_op, call_in>>
    /\ UNCHANGED <<coreVars, extButCall>>

\* one call of truncate_text(text, max_length)
TruncateCall ==
    /\ call_op = "truncate_text"
    /\ call_pc = "ready"
    /\ call_out' = truncate_text(call_in.text, call_in.max_length)
    /\ call_pc' = "done"
    /\ UNCHANGED <<call_op, call_in>>
    /\ UNCHANGED <<coreVars, extButCall>>

(***************************************************************************)
(* src/retrieval/embeddings.py: EmbeddingClient.embed_batch.  A vector is  *)
(* its dimension and what it embeds; the service answers a request with an *)
(* error or with the embeddings of the first n inputs, in input order.     *)
(***************************************************************************)
Dimensions == 1536

MaxTexts == 3

BatchTexts == {"", " ", "Text 1", "Text 2"}

\* t.strip(): the text without the whitespace around it
Strip(t) == IF t \in {"", " "} THEN "" ELSE t

ZeroVector == [dim |-> Dimensions, of |-> ""]

\* the embedding the service computes for a text
Embedding(t) == [dim |-> Dimensions, of |-> t]

NoRequest == [sent |-> FALSE, input |-> <<>>]

RECURSIVE ValidTexts(_, _)
\* line 79: the (i, t) of the texts that are not blank, i counted from 0
ValidTexts(texts, i) ==
    IF i >= Len(texts) THEN <<>>
    ELSE (IF Strip(texts[i + 1]) # "" THEN <<[i |-> i, t |-> texts[i + 1]]>> ELSE <<>>)
             \o ValidTexts(texts, i + 1)

\* embeddings.create(input): response.data
ResponseData(input, n) ==
    [k \in 1..n |-> [index |-> k - 1, embedding |-> Embedding(input[k])]]

\* a variant that maps the k-th embedding to position k
embed_batch_by_position(texts, service) ==
    LET valid_texts == ValidTexts(texts, 0)
        batch_texts == [k \in 1..Len(valid_texts) |-> valid_texts[k].t]
        data == ResponseData(batch_texts, service.n)
    IN  IF texts = <<>>
        THEN [raised |-> FALSE, value |-> <<>>, request |-> NoRequest]
        ELSE IF valid_texts = <<>>
        THEN [raised |-> FALSE, value |-> [p \in 1..Len(texts) |-> ZeroVector],
              request |-> NoRequest]
        ELSE IF service.kind = "error"
        THEN [raised |-> TRUE, value |-> <<>>,
              request |-> [sent |-> TRUE, input |-> batch_texts]]
        ELSE [raised |-> FALSE,
              value |-> [p \in 1..Len(texts) |->
                            IF p <= Len(data) THEN data[p].embedding ELSE ZeroVector],
              request |-> [sent |-> TRUE, input |-> batch_texts]]

embed_batch(texts, service) ==
    LET valid_texts == ValidTexts(texts, 0)
        indices == [k \in 1..Len(valid_texts) |-> valid_texts[k].i]
        batch_texts == [k \in 1..Len(valid_texts) |-> valid_texts[k].t]
        data == ResponseData(batch_texts, service.n)
    IN  IF texts = <<>>
        THEN [raised |-> FALSE, value |-> <<>>, request |-> NoRequest]
        ELSE IF valid_texts = <<>>
        THEN [raised |-> FALSE, value |-> [p \in 1..Len(texts) |-> ZeroVector],
              request |-> NoRequest]
        ELSE IF service.kind = "error"
        THEN [raised |-> TRUE, value |-> <<>>,
              request |-> [sent |-> TRUE, input |-> batch_texts]]
        ELSE [raised |-> FALSE,
              value |-> [p \in 1..Len(texts) |->
                            IF \E k \in 1..Len(data) : indices[k] = p - 1
                            THEN data[CHOOSE k \in 1..Len(data) : indices[k] = p - 1].embedding
                            ELSE ZeroVector],
              request |-> [sent |-> TRUE, input |-> batch_texts]]

\* one call of embed_batch
EmbedBatchCall ==
    /\ call_op = "embed_batch"
    /\ call_pc = "ready"
    /\ call_out' = embed_batch(call_in.texts, call_in.service)
    /\ call_pc' = "done"
    /\ UNCHANGED <<call_op, call_in>>
    /\ UNCHANGED <<coreVars, extButCall>>

(***************************************************************************)
(* src/context/linear.py: a retried request (_execute_query under          *)
(* tenacity's retry), the client read operation around it, and the caller  *)
(* of the read operation: a source sync or the live-context fetch.         *)
(* call_in holds what each attempt of the request meets.                   *)
(***************************************************************************)
RetryAttempts == 3

\* what an attempt ends with: a response, or an exception of httpx
AttemptOutcomes == {"ok", "TimeoutException", "HTTPStatusError"}

Callers == {"sync_linear", "_get_live_context"}

\* tenacity's retry: any exception of an attempt is retried up to the stop;
\* after the last attempt tenacity raises its RetryError
RetryAttempt ==
    /\ call_op = "get_recent_issues"
    /\ call_pc = "request"
    /\ LET n == call_out.attempts + 1
           outcome == call_in.outcomes[n]
       IN  /\ call_out' = [call_out EXCEPT
                  !.attempts = n,
                  !.request = IF outcome = "ok" THEN "returned"
                              ELSE IF n = RetryAttempts THEN "RetryError"
                              ELSE "retrying"]
           /\ call_pc' = IF outcome = "ok" \/ n = RetryAttempts THEN "read_op" ELSE "request"
    /\ UNCHANGED <<call_op, call_in>>
    /\ UNCHANGED <<coreVars, extButCall>>

\* whether an except clause for httpx.HTTPError handles the exception
IsHTTPError(exc) == exc \in {"TimeoutException", "HTTPStatusError"}

\* get_recent_issues, lines 88-134: the documents of the response; the
\* except clause returns [] for an httpx.HTTPError, anything else leaves
ReadOpResult(request) ==
    IF request = "returned" THEN "documents"
    ELSE IF IsHTTPError(request) THEN "empty"
    ELSE request

ReadOpFinish ==
    /\ call_op = "get_recent_issues"
    /\ call_pc = "read_op"
    /\ call_out' = [call_out EXCEPT !.read_op = ReadOpResult(call_out.request)]
    /\ call_pc' = "caller"
    /\ UNCHANGED <<call_op, call_in>>
    /\ UNCHANGED <<coreVars, extButCall>>

\* the caller: sync_linear returns 0 for no documents and from its
\* except Exception; _get_live_context extends its documents, or logs the
\* exception and goes on to the next source
CallerFinish ==
    /\ call_op = "get_recent_issues"
    /\ call_pc = "caller"
    /\ call_out' = [call_out EXCEPT !.caller =
           IF call_in.caller = "sync_linear"
           THEN (IF call_out.read_op = "documents" THEN "synced" ELSE "returned 0")
           ELSE (IF call_out.read_op = "documents" THEN "extended"
                 ELSE IF call_out.read_op = "empty" THEN "extended by nothing"
                 ELSE "skipped")]
    /\ call_pc' = "done"
    /\ UNCHANGED <<call_op, call_in>>
    /\ UNCHANGED <<coreVars, extButCall>>
(***************************************************************************)
(* The index and the sync pipeline (src/sync/sources/*.py,                 *)
(* VectorStore.upsert_documents, VectorStore.delete_by_source).            *)
(* An index entry is [id, source, text]: the vector id, metadata.source    *)
(* and metadata.text.  Upstream, a source holds the documents 1 and 2,     *)
(* each absent, short (one chunk) or long (several chunks).                *)
(***************************************************************************)
MaxSyncs == 2

MaxBatchSize == 2

SyncSources == {"linear", "notion", "github"}

\* f"{title}\n\n{content}": the paragraph break makes the text not plain
ShortText == [sents |-> <<[n |-> 1, w |-> 1]>>, plain |-> FALSE]

LongText == [sents |-> <<[n |-> 1, w |-> 1], [n |-> 1, w |-> 1], [n |-> 1, w |-> 2]>>,
             plain |-> FALSE]

SyncTexts == {ShortText, LongText}

\* what a fetch may return: the documents upstream holds now, in id order
FetchedLists(source) ==
    {<<>>}
        \cup {<<[id |-> <<source, n>>, text |-> t]>> : n \in {1, 2}, t \in SyncTexts}
        \cup {<<[id |-> <<source, 1>>, text |-> t1], [id |-> <<source, 2>>, text |-> t2]>> :
                 t1 \in SyncTexts, t2 \in SyncTexts}

\* sync_<source>, the loops over the documents and their chunks:
\* the dicts handed to upsert_documents
RECURSIVE PrepareDocuments(_, _)
PrepareDocuments(items, source) ==
    IF items = <<>> THEN <<>>
    ELSE LET chunks == chunk_document(Head(items).id, Head(items).text, source)
         IN  [j \in 1..Len(chunks) |->
                 [id |-> chunks[j].id, source |-> chunks[j].source, text |-> chunks[j].text]]
                 \o PrepareDocuments(Tail(items), source)

SeqRange(q) == {q[j] : j \in 1..Len(q)}

\* index.upsert(vectors=batch): an entry with the same id is replaced
IndexUpsert(idx, batch) ==
    {e \in idx : \A j \in 1..Len(batch) : batch[j].id # e.id} \cup SeqRange(batch)

\* a variant of IndexDelete that ignores the filter
IndexDeleteAll(idx, source) == {}

\* a variant of IndexDelete that removes nothing
IndexDeleteNothing(idx, source) == idx

\* index.delete(filter={"source": {"$eq": source}})
IndexDelete(idx, source) == {e \in idx : e.source # source}

NumBatches(documents) == (Len(documents) + batch_size - 1) \div batch_size

\* a variant of upsert_documents that swallows a failure and returns what
\* was written so far
upsert_documents_soft(idx, documents, embed_ok, written) ==
    IF documents = <<>> \/ ~embed_ok THEN [raised |-> FALSE, count |-> 0, index |-> idx]
    ELSE LET n == IF written * batch_size < Len(documents) THEN written * batch_size
                  ELSE Len(documents)
         IN  [raised |-> FALSE, count |-> n, index |-> IndexUpsert(idx, SubSeq(documents, 1, n))]

\* a variant of upsert_documents that embeds batch by batch: when the
\* embedding fails, the batches before it are written already
upsert_documents_interleaved(idx, documents, embed_ok, written) ==
    IF documents = <<>> THEN [raised |-> FALSE, count |-> 0, index |-> idx]
    ELSE LET n == IF written * batch_size < Len(documents) THEN written * batch_size
                  ELSE Len(documents)
             idx2 == IndexUpsert(idx, SubSeq(documents, 1, n))
         IN  IF ~embed_ok \/ written < NumBatches(documents)
             THEN [raised |-> TRUE, count |-> 0, index |-> idx2]
             ELSE [raised |-> FALSE, count |-> Len(documents), index |-> idx2]

\* VectorStore.upsert_documents: embed_batch first; then one write per
\* batch.  written is the number of batches written before a write fails
\* (NumBatches when none fails).  [raised, count, index]
upsert_documents(idx, documents, embed_ok, written) ==
    IF documents = <<>> THEN [raised |-> FALSE, count |-> 0, index |-> idx]
    ELSE IF ~embed_ok THEN [raised |-> TRUE, count |-> 0, index |-> idx]
    ELSE LET n == IF written * batch_size < Len(documents) THEN written * batch_size
                  ELSE Len(documents)
             idx2 == IndexUpsert(idx, SubSeq(documents, 1, n))
         IN  IF written < NumBatches(documents)
             THEN [raised |-> TRUE, count |-> 0, index |-> idx2]
             ELSE [raised |-> FALSE, count |-> Len(documents), index |-> idx2]

\* lines 94-95: the batches upsert_documents cuts the vectors into
RECURSIVE Batches(_)
Batches(documents) ==
    IF documents = <<>> THEN <<>>
    ELSE IF Len(documents) <= batch_size THEN <<documents>>
    ELSE <<SubSeq(documents, 1, batch_size)>>
             \o Batches(SubSeq(documents, batch_size + 1, Len(documents)))

\* no call of upsert_documents yet
NoUpsert == [embed_ok |-> TRUE, failing |-> 0, raised |-> FALSE, count |-> 0, writes |-> <<>>]

\* what one call of upsert_documents did: whether embed_batch succeeded,
\* the batch whose write failed (0: none), whether the call raised, the
\* count it returned (0 when it raised) and the batches it wrote
UpsertCall(documents, embed_ok, written, r) ==
    [embed_ok |-> embed_ok,
     failing |-> IF embed_ok /\ written < NumBatches(documents) THEN written + 1 ELSE 0,
     raised |-> r.raised,
     count |-> r.count,
     writes |-> IF embed_ok THEN SubSeq(Batches(documents), 1, written) ELSE <<>>]

\* run_full_sync, lines 29-31: the order of the syncs
FullSyncOrder == <<"linear", "notion", "github">>

\* a variant of NextSource that starts with github
NextSourceGithubFirst(done) == <<"github", "linear", "notion">>[Len(done) + 1]

\* the sync run_full_sync calls after those in done
NextSource(done) == FullSyncOrder[Len(done) + 1]

\* sync_<source>() may be entered: alone, up to MaxSyncs times, or as the
\* next call of run_full_sync
MayStart(source) ==
    /\ sync_pc = "idle"
    /\ IF sync_mode = "full"
       THEN Len(sync_results) < Len(FullSyncOrder) /\ NextSource(sync_results) = source
       ELSE n_syncs < MaxSyncs

\* return count; in run_full_sync: results[source] = count
SyncReturn(source, count, outcome) ==
    /\ sync_count' = count
    /\ sync_outcome' = outcome
    /\ sync_pc' = "idle"
    /\ sync_results' = IF sync_mode = "full"
                  THEN Append(sync_results, [source |-> source, count |-> count])
                  ELSE sync_results

\* sync_github, lines 20-27: the set-up, then delete_by_source("github")
\* before the fetch.  An exception in the set-up returns 0; a failure of
\* the delete is caught and logged inside delete_by_source.
SyncGithubDelete ==
    /\ MayStart("github")
    /\ n_syncs' = n_syncs + 1
    /\ sync_source' = "github"
    /\ \/ /\ sync_delete' = "none"
          /\ sync_documents' = <<>>
          /\ SyncReturn("github", 0, "setup_error")
          /\ UNCHANGED index
       \/ /\ \E deleted \in BOOLEAN :
                 /\ index' = IF deleted THEN IndexDelete(index, "github") ELSE index
                 /\ sync_delete' = IF deleted THEN "ok" ELSE "failed"
          /\ sync_pc' = "fetch"
          /\ sync_outcome' = "running"
          /\ UNCHANGED <<sync_documents, sync_count, sync_results>>
    /\ UNCHANGED <<batch_size, sync_mode, upsert_call>>
    /\ UNCHANGED <<settingVars, chunkVars, vsVars, queryVars, llmVars, extVars>>

\* a variant of SyncFetch that clears the source when nothing was fetched
SyncFetchClearing(source) ==
    /\ \/ /\ source # "github"
          /\ MayStart(source)
          /\ n_syncs' = n_syncs + 1
          /\ sync_delete' = "none"
       \/ /\ source = "github"
          /\ sync_pc = "fetch"
          /\ UNCHANGED <<n_syncs, sync_delete>>
    /\ sync_source' = source
    /\ \/ /\ sync_documents' = <<>>
          /\ SyncReturn(source, 0, "fetch_error")
          /\ UNCHANGED index
       \/ \E items \in FetchedLists(source) :
              /\ sync_documents' = PrepareDocuments(items, source)
              /\ IF items = <<>>
                 THEN SyncReturn(source, 0, "empty") /\ index' = IndexDelete(index, source)
                 ELSE /\ sync_pc' = "upsert"
                      /\ sync_outcome' = "running"
                      /\ UNCHANGED <<sync_count, sync_results, index>>
    /\ UNCHANGED <<batch_size, sync_mode, upsert_call>>
    /\ UNCHANGED <<settingVars, chunkVars, vsVars, queryVars, llmVars, extVars>>

\* the fetch and the chunking: an exception (also one of the set-up of
\* sync_linear and sync_notion) returns 0, no document returns 0, otherwise
\* the documents go to the upsert
SyncFetch(source) ==
    /\ \/ /\ source # "github"
          /\ MayStart(source)
          /\ n_syncs' = n_syncs + 1
          /\ sync_delete' = "none"
       \/ /\ source = "github"
          /\ sync_pc = "fetch"
          /\ UNCHANGED <<n_syncs, sync_delete>>
    /\ sync_source' = source
    /\ \/ /\ sync_documents' = <<>>
          /\ SyncReturn(source, 0, "fetch_error")
       \/ \E items \in FetchedLists(source) :
              /\ sync_documents' = PrepareDocuments(items, source)
              /\ IF items = <<>>
                 THEN SyncReturn(source, 0, "empty")
                 ELSE /\ sync_pc' = "upsert"
                      /\ sync_outcome' = "running"
                      /\ UNCHANGED <<sync_count, sync_results>>
    /\ UNCHANGED <<index, batch_size, sync_mode, upsert_call>>
    /\ UNCHANGED <<settingVars, chunkVars, vsVars, queryVars, llmVars, extVars>>

\* count = vector_store.upsert_documents(documents); an exception returns 0
SyncUpsert ==
    /\ sync_pc = "upsert"
    /\ \E embed_ok \in BOOLEAN, written \in 0..NumBatches(sync_documents) :
           LET r == upsert_documents(index, sync_documents, embed_ok, written)
           IN  /\ index' = r.index
               /\ upsert_call' = UpsertCall(sync_documents, embed_ok, written, r)
               /\ IF r.raised THEN SyncReturn(sync_source, 0, "upsert_error")
                  ELSE SyncReturn(sync_source, r.count, "ok")
    /\ UNCHANGED <<batch_size, sync_source, sync_documents, n_syncs, sync_delete, sync_mode>>
    /\ UNCHANGED <<settingVars, chunkVars, vsVars, queryVars, llmVars, extVars>>


(***************************************************************************)
(* src/sync/scheduler.py: start_scheduler starts the BackgroundScheduler   *)
(* and then runs the initial run_full_sync in the calling thread; the      *)
(* scheduler runs the job run_full_sync in its own thread whenever the     *)
(* interval has passed.  Time is not modelled: a sync lasts as long as its *)
(* requests take, so the interval may pass at any point of a run.          *)
(***************************************************************************)
MaxFires == 2

Threads == {"main", "timer"}

NumSources == Len(FullSyncOrder)

\* lines 46-73: the scheduler is started, then the initial run begins
StartScheduler ==
    /\ sched_state = "none"
    /\ sched_state' = "started"
    /\ run_pc' = [run_pc EXCEPT !["main"] = "between"]
    /\ UNCHANGED <<run_i, n_fires>>
    /\ UNCHANGED <<coreVars, extButSched>>

\* the interval passes: the job starts unless its last instance still runs
\* (APScheduler's max_instances is 1 for a job)
TimerFire ==
    /\ sched_state = "started"
    /\ run_pc["timer"] = "idle"
    /\ n_fires < MaxFires
    /\ n_fires' = n_fires + 1
    /\ run_pc' = [run_pc EXCEPT !["timer"] = "between"]
    /\ run_i' = [run_i EXCEPT !["timer"] = 0]
    /\ UNCHANGED sched_state
    /\ UNCHANGED <<coreVars, extButSched>>

\* run_full_sync, lines 29-31: the call of the next source's sync
SyncEnter(t) ==
    /\ run_pc[t] = "between"
    /\ run_i[t] < NumSources
    /\ run_pc' = [run_pc EXCEPT ![t] = "in_sync"]
    /\ UNCHANGED <<sched_state, run_i, n_fires>>
    /\ UNCHANGED <<coreVars, extButSched>>

\* ... and its return
SyncLeave(t) ==
    /\ run_pc[t] = "in_sync"
    /\ run_pc' = [run_pc EXCEPT ![t] = "between"]
    /\ run_i' = [run_i EXCEPT ![t] = @ + 1]
    /\ UNCHANGED <<sched_state, n_fires>>
    /\ UNCHANGED <<coreVars, extButSched>>

\* run_full_sync returns: start_scheduler returns, the job's thread is free
RunReturn(t) ==
    /\ run_pc[t] = "between"
    /\ run_i[t] = NumSources
    /\ run_pc' = [run_pc EXCEPT ![t] = IF t = "main" THEN "returned" ELSE "idle"]
    /\ UNCHANGED <<sched_state, run_i, n_fires>>
    /\ UNCHANGED <<coreVars, extButSched>>

\* the source a thread's run is syncing, or is about to sync
RunSource(t) == IF run_i[t] < NumSources THEN FullSyncOrder[run_i[t] + 1] ELSE "none"

(***************************************************************************)
(* src/retrieval/vectorstore.py: the index property of the one VectorStore *)
(* (get_vector_store is cached), accessed by the thread of a sync and by   *)
(* the thread of a query.  The property holds no lock; every request to    *)
(* Pinecone is one step.                                                   *)
(***************************************************************************)
IxThreads == {"sync", "query"}

PollLimit == 60

\* line 29: if self._index is None
IxCheck(t) ==
    /\ ix_pc[t] = "call"
    /\ ix_pc' = [ix_pc EXCEPT ![t] = IF store_index = "None" THEN "list" ELSE "got"]
    /\ UNCHANGED <<store_index, pinecone_status, ix_listed, ix_polls, create_calls>>
    /\ UNCHANGED <<coreVars, extButIx>>

\* lines 31-33: list_indexes, which names an index under creation too
IxList(t) ==
    /\ ix_pc[t] = "list"
    /\ ix_listed' = [ix_listed EXCEPT ![t] = (pinecone_status # "absent")]
    /\ ix_pc' = [ix_pc EXCEPT ![t] = IF pinecone_status # "absent" THEN "bind" ELSE "create"]
    /\ UNCHANGED <<store_index, pinecone_status, ix_polls, create_calls>>
    /\ UNCHANGED <<coreVars, extButIx>>

\* lines 33-43: create_index; Pinecone refuses a name it has (409), and the
\* exception leaves the property
IxCreate(t) ==
    /\ ix_pc[t] = "create"
    /\ create_calls' = Append(create_calls,
                              [thread |-> t, listed |-> ix_listed[t], had |-> pinecone_status])
    /\ IF pinecone_status = "absent"
       THEN /\ pinecone_status' = "creating"
            /\ ix_pc' = [ix_pc EXCEPT ![t] = "wait"]
       ELSE /\ pinecone_status' = pinecone_status
            /\ ix_pc' = [ix_pc EXCEPT ![t] = "raised"]
    /\ UNCHANGED <<store_index, ix_listed, ix_polls>>
    /\ UNCHANGED <<coreVars, extButIx>>

\* Pinecone finishes the creation
PineconeReady ==
    /\ pinecone_status = "creating"
    /\ pinecone_status' = "ready"
    /\ UNCHANGED <<store_index, ix_pc, ix_listed, ix_polls, create_calls>>
    /\ UNCHANGED <<coreVars, extButIx>>

\* a variant of WaitOver that waits until the index is ready
WaitOverWhenReady(ready, polls) == ready

\* lines 45-50: the loop ends at the break or after range(60), polls being
\* the describe_index calls made
WaitOver(ready, polls) == ready \/ polls = PollLimit

\* lines 45-50: one describe_index of the wait, which ends when the index
\* is ready or after the last poll
IxPoll(t) ==
    /\ ix_pc[t] = "wait"
    /\ ix_polls' = [ix_polls EXCEPT ![t] = @ + 1]
    /\ ix_pc' = [ix_pc EXCEPT ![t] =
           IF WaitOver(pinecone_status = "ready", ix_polls[t] + 1) THEN "bind" ELSE "wait"]
    /\ UNCHANGED <<store_index, pinecone_status, ix_listed, create_calls>>
    /\ UNCHANGED <<coreVars, extButIx>>

\* line 52: self._index = self.pc.Index(self.index_name)
IxBind(t) ==
    /\ ix_pc[t] = "bind"
    /\ store_index' = "Index"
    /\ ix_pc' = [ix_pc EXCEPT ![t] = "got"]
    /\ UNCHANGED <<pinecone_status, ix_listed, ix_polls, create_calls>>
    /\ UNCHANGED <<coreVars, extButIx>>

(***************************************************************************)
(* src/retrieval/query.py: a query() in the thread of a Slack handler,     *)
(* beside the syncs.  Each vector_store.query of its loop reads the index  *)
(* as it is at that moment.                                                *)
(***************************************************************************)
MaxSearches == 1

NoQuery == [pc |-> "off", sources |-> {}, left |-> 0, ids |-> {}, window |-> FALSE,
            replaced |-> FALSE, run |-> 0, live |-> FALSE]

\* what the classifier may give a question about the code
CqSources == {{"github"}, {"github", "linear"}}

\* the entries a sync_linear before left in the index
LinearSeed ==
    SeqRange(PrepareDocuments(<<[id |-> <<"linear", 1>>, text |-> LongText]>>, "linear"))

\* sync_github is between its delete, which succeeded, and its upsert
InGithubWindow ==
    sync_source = "github" /\ sync_pc \in {"fetch", "upsert"} /\ sync_delete = "ok"

RECURSIVE SetToSeq(_)
SetToSeq(S) ==
    IF S = {} THEN <<>>
    ELSE LET x == CHOOSE x \in S : TRUE IN <<x>> \o SetToSeq(S \ {x})

\* line 149: all_results[: retrieval_top_k]
TopResultsOf(all) == SubSeq(all, 1, IF Len(all) < retrieval_top_k THEN Len(all) ELSE retrieval_top_k)

\* lines 122-126: the classification and the search queries
CqStart ==
    /\ cq.pc = "idle"
    /\ \E sources \in CqSources, n \in 1..MaxSearches :
           cq' = [cq EXCEPT !.pc = "retrieve", !.sources = sources, !.left = n,
                            !.window = TRUE]
    /\ UNCHANGED <<coreVars, extButCq>>

\* the entries the source filter admits, best match first (the ranking is
\* one fixed order of the entries)
Admitted(sources) == SetToSeq({e \in index : e.source \in sources})

\* lines 132-145: one vector_store.query with the source filter: the best
\* matches above the threshold, top_k at most, the new ones kept
CqRetrieve ==
    /\ cq.pc = "retrieve"
    /\ \E k \in 0..retrieval_top_k :
           /\ k <= Len(Admitted(cq.sources))
           /\ LET found == SeqRange(SubSeq(Admitted(cq.sources), 1, k)) IN
              cq' = [cq EXCEPT
                  !.ids = @ \cup {<<e.source, e.id>> : e \in found},
                  !.window = @ /\ InGithubWindow,
                  !.replaced = sync_count > 0,
                  !.run = n_syncs,
                  !.left = @ - 1,
                  !.pc = IF cq.left = 1 THEN "decide" ELSE "retrieve"]
    /\ UNCHANGED <<coreVars, extButCq>>

\* lines 148-154: the top results and the decision to fetch live context
CqDecide ==
    /\ cq.pc = "decide"
    /\ cq' = [cq EXCEPT !.pc = "done",
                        !.live = NeedsLiveContext(TopResultsOf(SetToSeq(cq.ids)))]
    /\ UNCHANGED <<coreVars, extButCq>>
(***************************************************************************)
(* src/retrieval/query.py, RAGQueryEngine._get_live_context, one iteration *)
(* of its loop per step.  What a client answers is LiveOutcomes, as for    *)
(* get_live_context above; o.second is the answer of get_recent_issues.    *)
(***************************************************************************)
MaxLiveSources == 2

\* lines 45-70: the body of the try for one source: the documents it would
\* add, or the exception that leaves it
LiveTry(source, o) ==
    IF o.first = "error" THEN [raised |-> TRUE, docs |-> <<>>]
    ELSE IF source = "linear" /\ LiveDocs(source, o.first) = <<>>
    THEN IF o.second = "error" THEN [raised |-> TRUE, docs |-> <<>>]
         ELSE [raised |-> FALSE, docs |-> RecentDocs(source, o.second)]
    ELSE [raised |-> FALSE, docs |-> LiveDocs(source, o.first)]

\* a variant of LiveIteration without the except clause
LiveIterationUncaught(documents, source, o) ==
    LET t == LiveTry(source, o)
    IN  [documents |-> documents \o t.docs, raised |-> t.raised]

\* lines 44-73: try: ... documents.extend(docs); except Exception: log
LiveIteration(documents, source, o) ==
    LET t == LiveTry(source, o)
    IN  [documents |-> IF t.raised THEN documents ELSE documents \o t.docs,
         raised |-> FALSE]

\* lines 43-73: one iteration of "for source in sources"
LiveFetch ==
    /\ lc_pc = "loop"
    /\ lc_i <= Len(lc_sources)
    /\ LET r == LiveIteration(lc_documents, lc_sources[lc_i], lc_outs[lc_i])
       IN  /\ lc_documents' = r.documents
           /\ lc_pc' = IF r.raised THEN "raised" ELSE "loop"
    /\ lc_i' = lc_i + 1
    /\ UNCHANGED <<lc_sources, lc_outs>>
    /\ UNCHANGED <<coreVars, extButLive>>

\* line 75: return documents
LiveReturn ==
    /\ lc_pc = "loop"
    /\ lc_i > Len(lc_sources)
    /\ lc_pc' = "returned"
    /\ UNCHANGED <<lc_sources, lc_outs, lc_i, lc_documents>>
    /\ UNCHANGED <<coreVars, extButLive>>

(***************************************************************************)
(* src/sync/scheduler.py: start_scheduler and stop_scheduler.              *)
(* A scheduler is a number from 1 on, in the order of construction; the     *)
(* calls come one after the other, as in main: start_scheduler before the  *)
(* Slack handler starts, stop_scheduler from the signal handler and from   *)
(* the finally clause.                                                     *)
(***************************************************************************)
MaxLifeCalls == 5

\* the entry of a finished call in the history: _scheduler before it, what
\* it returned, and how its initial sync ended
LifeCall(op, before, returned, sync) ==
    [op |-> op, before |-> before, returned |-> returned, sync |-> sync]

\* line 56-62: add_job(..., id="full_sync", replace_existing=True) on a
\* scheduler that holds jobs such jobs
AddJob(jobs) == IF jobs = 0 THEN 1 ELSE jobs

\* a variant of AlreadyRunning that never finds a scheduler
AlreadyRunningNever(scheduler) == FALSE

\* line 48: if _scheduler is not None
AlreadyRunning(scheduler) == scheduler # 0

\* start_scheduler, lines 46-64: return the scheduler there is, or make
\* one, add the job and start it
start_scheduler ==
    /\ sd_pc = "idle"
    /\ Len(sd_log) < MaxLifeCalls
    /\ IF AlreadyRunning(sd_global)
       THEN /\ sd_log' = Append(sd_log, LifeCall("start", sd_global, sd_global, "none"))
            /\ UNCHANGED <<sd_global, sd_pc, sd_state, sd_jobs, sd_initial>>
       ELSE /\ sd_global' = Len(sd_state) + 1
            /\ sd_state' = Append(sd_state, "running")
            /\ sd_jobs' = Append(sd_jobs, AddJob(0))
            /\ sd_initial' = Append(sd_initial, 0)
            /\ sd_pc' = "initial_sync"
            /\ UNCHANGED sd_log
    /\ UNCHANGED <<coreVars, extButLife>>

\* start_scheduler, lines 70-77: the initial run_full_sync, whose exception
\* is logged, and the return
initial_sync ==
    /\ sd_pc = "initial_sync"
    /\ \E outcome \in {"ok", "raised"} :
           sd_log' = Append(sd_log, LifeCall("start", 0, sd_global, outcome))
    /\ sd_initial' = [sd_initial EXCEPT ![sd_global] = @ + 1]
    /\ sd_pc' = "idle"
    /\ UNCHANGED <<sd_global, sd_state, sd_jobs>>
    /\ UNCHANGED <<coreVars, extButLife>>

\* stop_scheduler, lines 82-87
stop_scheduler ==
    /\ sd_pc = "idle"
    /\ Len(sd_log) < MaxLifeCalls
    /\ sd_log' = Append(sd_log, LifeCall("stop", sd_global, 0, "none"))
    /\ IF sd_global # 0
       THEN /\ sd_state' = [sd_state EXCEPT ![sd_global] = "shutdown"]
            /\ sd_global' = 0
       ELSE UNCHANGED <<sd_global, sd_state>>
    /\ UNCHANGED <<sd_pc, sd_jobs, sd_initial>>
    /\ UNCHANGED <<coreVars, extButLife>>

(***************************************************************************)
(* The getters of the module-level instances (get_rag_engine and the like) *)
(* called by the threads that handle Slack events.                         *)
(***************************************************************************)
GetterThreads == {"t1", "t2"}

MaxGets == 2

\* a thread calls the getter
GetCall(t) ==
    /\ sg_pc[t] = "idle"
    /\ Len(sg_ret[t]) < MaxGets
    /\ sg_pc' = [sg_pc EXCEPT ![t] = "check"]
    /\ UNCHANGED <<sg_instance, sg_local, sg_ret, sg_made>>
    /\ UNCHANGED <<coreVars, extButSingle>>

\* query.py line 200: if _engine is None
GetCheck(t) ==
    /\ sg_pc[t] = "check"
    /\ sg_pc' = [sg_pc EXCEPT ![t] = IF sg_instance = 0 THEN "construct" ELSE "return"]
    /\ UNCHANGED <<sg_instance, sg_local, sg_ret, sg_made>>
    /\ UNCHANGED <<coreVars, extButSingle>>

\* line 201, right-hand side: RAGQueryEngine()
GetConstruct(t) ==
    /\ sg_pc[t] = "construct"
    /\ sg_made' = sg_made + 1
    /\ sg_local' = [sg_local EXCEPT ![t] = sg_made + 1]
    /\ sg_pc' = [sg_pc EXCEPT ![t] = "assign"]
    /\ UNCHANGED <<sg_instance, sg_ret>>
    /\ UNCHANGED <<coreVars, extButSingle>>

\* line 201: _engine = ...
GetAssign(t) ==
    /\ sg_pc[t] = "assign"
    /\ sg_instance' = sg_local[t]
    /\ sg_pc' = [sg_pc EXCEPT ![t] = "return"]
    /\ UNCHANGED <<sg_local, sg_ret, sg_made>>
    /\ UNCHANGED <<coreVars, extButSingle>>

\* line 202: return _engine
GetReturn(t) ==
    /\ sg_pc[t] = "return"
    /\ sg_ret' = [sg_ret EXCEPT ![t] = Append(@, sg_instance)]
    /\ sg_pc' = [sg_pc EXCEPT ![t] = "idle"]
    /\ UNCHANGED <<sg_instance, sg_local, sg_made>>
    /\ UNCHANGED <<coreVars, extButSingle>>
(***************************************************************************)
(* Specifications.  Each one runs one component; the others are off.       *)
(***************************************************************************)
ChunkerOff == doc = [sents |-> <<>>, plain |-> TRUE] /\ cpc = "off" /\ chunks_out = <<>>

VectorOff ==
    /\ vs_pc = "off"
    /\ vs_in = [blank |-> TRUE, embed |-> "ok", index |-> "ok", matches |-> <<>>]
    /\ vs_out = [raised |-> FALSE, docs |-> <<>>]

QueryFresh ==
    /\ q_sources = <<>>
    /\ search_queries = <<>>
    /\ q_i = 1
    /\ all_results = <<>>
    /\ seen_ids = {}
    /\ last_skipped = NoResult
    /\ top_results = <<>>
    /\ live_documents = <<>>
    /\ live_fetched = FALSE
    /\ q_result = "none"
    /\ q_error = "none"

QueryOff == q_pc = "off" /\ use_live_context = TRUE /\ QueryFresh

CallOff ==
    /\ call_pc = "off"
    /\ call_op = "none"
    /\ call_in = <<>>
    /\ call_out = <<>>

CacheOff ==
    /\ cache_store = [k \in CachePrefixes |-> Absent]
    /\ cache_origin = [k \in CachePrefixes |-> Absent]
    /\ cache_call = NoCall
    /\ n_calls = 0

SchedOff ==
    /\ sched_state = "none"
    /\ run_pc = [t \in Threads |-> "idle"]
    /\ run_i = [t \in Threads |-> 0]
    /\ n_fires = 0

IxOff ==
    /\ store_index = "None"
    /\ pinecone_status = "absent"
    /\ ix_pc = [t \in IxThreads |-> "off"]
    /\ ix_listed = [t \in IxThreads |-> FALSE]
    /\ ix_polls = [t \in IxThreads |-> 0]
    /\ create_calls = <<>>

CqOff == cq = NoQuery

LiveOff ==
    /\ lc_pc = "off"
    /\ lc_sources = <<>>
    /\ lc_outs = <<>>
    /\ lc_i = 0
    /\ lc_documents = <<>>

LifeOff ==
    /\ sd_global = 0
    /\ sd_pc = "off"
    /\ sd_state = <<>>
    /\ sd_jobs = <<>>
    /\ sd_initial = <<>>
    /\ sd_log = <<>>

SingleOff ==
    /\ sg_instance = 0
    /\ sg_pc = [t \in GetterThreads |-> "off"]
    /\ sg_local = [t \in GetterThreads |-> 0]
    /\ sg_ret = [t \in GetterThreads |-> <<>>]
    /\ sg_made = 0

ExtOff ==
    /\ CallOff
    /\ CacheOff
    /\ SchedOff
    /\ IxOff
    /\ CqOff
    /\ LiveOff
    /\ LifeOff
    /\ SingleOff

LlmOff ==
    /\ llm_pc = "off"
    /\ llm_op = "none"
    /\ llm_resp = Resp("none")
    /\ llm_out = Returned(<<>>)

SyncOff ==
    /\ index = {}
    /\ batch_size = 1
    /\ sync_pc = "off"
    /\ sync_source = "none"
    /\ sync_documents = <<>>
    /\ sync_count = 0
    /\ n_syncs = 0
    /\ sync_mode = "single"
    /\ sync_outcome = "none"
    /\ sync_delete = "none"
    /\ sync_results = <<>>
    /\ upsert_call = NoUpsert

\* the chunker: every text and every configuration with
\* chunk_overlap < chunk_size, chunk_document applied once
ChunkInit ==
    /\ chunk_size \in 1..MaxChunkSize
    /\ chunk_overlap \in 0..(chunk_size - 1)
    /\ space_tok \in {0, 1}
    /\ retrieval_top_k = MaxTopK
    /\ similarity_threshold = 7
    /\ doc \in Texts
    /\ cpc = "ready"
    /\ chunks_out = <<>>
    /\ VectorOff
    /\ QueryOff
    /\ SyncOff
    /\ LlmOff
    /\ ExtOff

ChunkDocument ==
    /\ cpc = "ready"
    /\ chunks_out' = chunk_document("d", doc, "linear")
    /\ cpc' = "done"
    /\ UNCHANGED <<settingVars, doc, vsVars, queryVars, syncVars, llmVars, extVars>>

ChunkNext == ChunkDocument

SpecChunk == ChunkInit /\ [][ChunkNext]_vars

\* the vector store: every threshold, every answer of the embedding service
\* and of the index, VectorStore.query applied once
VectorInit ==
    /\ chunk_size = 2
    /\ chunk_overlap = 1
    /\ space_tok = 0
    /\ retrieval_top_k \in 1..MaxTopK
    /\ similarity_threshold \in Scores
    /\ vs_pc = "ready"
    /\ vs_in \in VsInputs(retrieval_top_k)
    /\ vs_out = [raised |-> FALSE, docs |-> <<>>]
    /\ ChunkerOff
    /\ QueryOff
    /\ SyncOff
    /\ LlmOff
    /\ ExtOff

VectorQuery ==
    /\ vs_pc = "ready"
    /\ vs_out' = VectorStoreQuery(vs_in)
    /\ vs_pc' = "done"
    /\ UNCHANGED <<settingVars, vs_in, chunkVars, queryVars, syncVars, llmVars, extVars>>

VectorNext == VectorQuery

SpecVector == VectorInit /\ [][VectorNext]_vars

\* the query engine: one call of query()
QueryInit ==
    /\ chunk_size = 2
    /\ chunk_overlap = 1
    /\ space_tok = 0
    /\ retrieval_top_k \in 1..MaxTopK
    /\ similarity_threshold = 7
    /\ q_pc = "classify"
    /\ use_live_context \in BOOLEAN
    /\ QueryFresh
    /\ ChunkerOff
    /\ VectorOff
    /\ SyncOff
    /\ LlmOff
    /\ ExtOff

QueryNext ==
    \/ QueryClassify
    \/ QueryGenerateSearchQueries
    \/ QueryVectorSearch
    \/ QueryRank
    \/ QueryLiveContext
    \/ QueryAnswer

SpecQuery == QueryInit /\ [][QueryNext]_vars

\* the index and the sync pipeline at start-up: an empty index
SyncStart ==
    /\ chunk_size = 2
    /\ chunk_overlap = 1
    /\ space_tok = 0
    /\ retrieval_top_k = MaxTopK
    /\ similarity_threshold = 7
    /\ index = {}
    /\ batch_size \in 1..MaxBatchSize
    /\ sync_pc = "idle"
    /\ sync_source = "none"
    /\ sync_documents = <<>>
    /\ sync_count = 0
    /\ n_syncs = 0
    /\ sync_outcome = "none"
    /\ sync_delete = "none"
    /\ sync_results = <<>>
    /\ upsert_call = NoUpsert
    /\ ChunkerOff
    /\ VectorOff
    /\ QueryOff
    /\ LlmOff

\* up to MaxSyncs runs of sync_linear, sync_notion and sync_github, one
\* after the other
SyncInit == SyncStart /\ sync_mode = "single" /\ ExtOff

SyncNext ==
    \/ SyncGithubDelete
    \/ \E source \in SyncSources : SyncFetch(source)
    \/ SyncUpsert

SpecSync == SyncInit /\ [][SyncNext]_vars

\* one run of run_full_sync; the calls are sequential code, so each step
\* that can be taken is taken
FullSyncInit == SyncStart /\ sync_mode = "full" /\ ExtOff

SpecFullSync == FullSyncInit /\ [][SyncNext]_vars /\ WF_vars(SyncNext)

\* one call of QuestionClassifier.classify or of
\* ClaudeClient.generate_search_queries, for every answer of the model
LlmInit ==
    /\ chunk_size = 2
    /\ chunk_overlap = 1
    /\ space_tok = 0
    /\ retrieval_top_k = MaxTopK
    /\ similarity_threshold = 7
    /\ llm_pc = "ready"
    /\ \/ llm_op = "classify" /\ llm_resp \in ClassifyResponses
       \/ llm_op = "generate_search_queries" /\ llm_resp \in GenerateResponses
    /\ llm_out = Returned(<<>>)
    /\ ChunkerOff
    /\ VectorOff
    /\ QueryOff
    /\ SyncOff
    /\ ExtOff

LlmNext ==
    \/ LlmClassify
    \/ LlmGenerateSearchQueries

SpecLlm == LlmInit /\ [][LlmNext]_vars

\* up to MaxCalls calls of cached operations on a Redis that starts empty
\* the first six components idle, under the settings of the other runs
CoreOff ==
    /\ chunk_size = 2
    /\ chunk_overlap = 1
    /\ space_tok = 0
    /\ retrieval_top_k = MaxTopK
    /\ similarity_threshold = 7
    /\ ChunkerOff
    /\ VectorOff
    /\ QueryOff
    /\ SyncOff
    /\ LlmOff

CacheInit == CoreOff /\ ExtOff

CacheNext ==
    \/ \E prefix \in CachePrefixes : CachedCall(prefix)
    \/ \E prefix \in CachePrefixes : CacheExpire(prefix)

SpecCache == CacheInit /\ [][CacheNext]_vars


\* one call of _process_question, for every behaviour of the engine and of
\* Slack
HandlerInit ==
    /\ CoreOff
    /\ CacheOff
    /\ SchedOff
    /\ IxOff
    /\ CqOff
    /\ LiveOff
    /\ LifeOff
    /\ SingleOff
    /\ call_op = "_process_question"
    /\ call_pc = "ready"
    /\ call_in \in [engine : EngineOutcomes, thinking_ts : ThinkingTs, thread_ts : ThreadTs]
    /\ call_out = [answer |-> <<>>, exc |-> "none", sent |-> <<>>, log |-> <<>>,
                   raised |-> "none"]

HandlerNext == ProcessQuery \/ ProcessSend \/ ProcessExcept

SpecHandler == HandlerInit /\ [][HandlerNext]_vars

\* one call of truncate_text, for every short text and every max_length
MaxTextLen == 5

MaxLength == 6

RECURSIVE TextsUpTo(_)
TextsUpTo(n) ==
    IF n = 0 THEN {<<>>}
    ELSE TextsUpTo(n - 1) \cup {Append(t, c) : t \in TextsUpTo(n - 1), c \in {"A", "."}}

TruncateInit ==
    /\ CoreOff
    /\ CacheOff
    /\ SchedOff
    /\ IxOff
    /\ CqOff
    /\ LiveOff
    /\ LifeOff
    /\ SingleOff
    /\ call_op = "truncate_text"
    /\ call_pc = "ready"
    /\ call_in \in [text : TextsUpTo(MaxTextLen), max_length : 0..MaxLength]
    /\ call_out = <<>>

SpecTruncate == TruncateInit /\ [][TruncateCall]_vars

\* start_scheduler in the calling thread, and the scheduler's timer
SchedInit == CoreOff /\ ExtOff

SchedNext ==
    \/ StartScheduler
    \/ TimerFire
    \/ \E t \in Threads : SyncEnter(t) \/ SyncLeave(t) \/ RunReturn(t)

SpecScheduler == SchedInit /\ [][SchedNext]_vars

\* the first accesses of VectorStore.index by a sync and by a query, with
\* the index at Pinecone or not
IndexInitInit ==
    /\ CoreOff
    /\ CallOff
    /\ CacheOff
    /\ SchedOff
    /\ CqOff
    /\ LiveOff
    /\ LifeOff
    /\ SingleOff
    /\ store_index = "None"
    /\ pinecone_status \in {"absent", "ready"}
    /\ ix_pc = [t \in IxThreads |-> "call"]
    /\ ix_listed = [t \in IxThreads |-> FALSE]
    /\ ix_polls = [t \in IxThreads |-> 0]
    /\ create_calls = <<>>

IndexInitNext ==
    \/ PineconeReady
    \/ \E t \in IxThreads : IxCheck(t) \/ IxList(t) \/ IxCreate(t) \/ IxPoll(t) \/ IxBind(t)

SpecIndexInit == IndexInitInit /\ [][IndexInitNext]_vars

RECURSIVE TextLists(_)
TextLists(n) ==
    IF n = 0 THEN {<<>>}
    ELSE TextLists(n - 1) \cup {Append(l, t) : l \in TextLists(n - 1), t \in BatchTexts}

\* what the embedding service does with a request of these texts
ServiceOutcomes(texts) ==
    {[kind |-> "error", n |-> 0]}
        \cup {[kind |-> "data", n |-> n] : n \in 0..Len(ValidTexts(texts, 0))}

\* one call of embed_batch, for every short list of texts
EmbedInit ==
    /\ CoreOff
    /\ CacheOff
    /\ SchedOff
    /\ IxOff
    /\ CqOff
    /\ LiveOff
    /\ LifeOff
    /\ SingleOff
    /\ call_op = "embed_batch"
    /\ call_pc = "ready"
    /\ \E texts \in TextLists(MaxTexts) :
           \E service \in ServiceOutcomes(texts) :
               call_in = [texts |-> texts, service |-> service]
    /\ call_out = <<>>

SpecEmbed == EmbedInit /\ [][EmbedBatchCall]_vars

\* one call of a client read operation by a sync or by the live-context
\* fetch, for every course of the attempts of its request
RetryInit ==
    /\ CoreOff
    /\ CacheOff
    /\ SchedOff
    /\ IxOff
    /\ CqOff
    /\ LiveOff
    /\ LifeOff
    /\ SingleOff
    /\ call_op = "get_recent_issues"
    /\ call_pc = "request"
    /\ call_in \in [outcomes : [1..RetryAttempts -> AttemptOutcomes], caller : Callers]
    /\ call_out = [attempts |-> 0, request |-> "none", read_op |-> "none", caller |-> "none"]

RetryNext == RetryAttempt \/ ReadOpFinish \/ CallerFinish

SpecRetry == RetryInit /\ [][RetryNext]_vars

\* runs of sync_github over an index that holds linear's entries, and one
\* query() beside them
SyncQueryInit ==
    /\ chunk_size = 2
    /\ chunk_overlap = 1
    /\ space_tok = 0
    /\ retrieval_top_k = MaxTopK
    /\ similarity_threshold = 7
    /\ index = LinearSeed
    /\ batch_size = 1
    /\ sync_pc = "idle"
    /\ sync_source = "none"
    /\ sync_documents = <<>>
    /\ sync_count = 0
    /\ n_syncs = 0
    /\ sync_mode = "single"
    /\ sync_outcome = "none"
    /\ sync_delete = "none"
    /\ sync_results = <<>>
    /\ upsert_call = NoUpsert
    /\ ChunkerOff
    /\ VectorOff
    /\ QueryOff
    /\ LlmOff
    /\ CallOff
    /\ CacheOff
    /\ SchedOff
    /\ IxOff
    /\ LiveOff
    /\ LifeOff
    /\ SingleOff
    /\ cq = [NoQuery EXCEPT !.pc = "idle"]

SyncQueryNext ==
    \/ SyncGithubDelete
    \/ SyncFetch("github")
    \/ SyncUpsert
    \/ CqStart
    \/ CqRetrieve
    \/ CqDecide

SpecSyncQuery == SyncQueryInit /\ [][SyncQueryNext]_vars

\* the same, each thread running on as long as it has a step to take;
\* Pinecone may never finish the creation
SpecIndexInitLive ==
    /\ IndexInitInit
    /\ [][IndexInitNext]_vars
    /\ \A t \in IxThreads :
           WF_vars(IxCheck(t) \/ IxList(t) \/ IxCreate(t) \/ IxPoll(t) \/ IxBind(t))

\* one call of _get_live_context, for every list of at most MaxLiveSources
\* sources and every answer of their clients
LiveSourceLists == UNION {[1..n -> SeqRange(ALL_SOURCES)] : n \in 0..MaxLiveSources}

LiveInit ==
    /\ CoreOff
    /\ CallOff
    /\ CacheOff
    /\ SchedOff
    /\ IxOff
    /\ CqOff
    /\ LifeOff
    /\ SingleOff
    /\ lc_pc = "loop"
    /\ lc_sources \in LiveSourceLists
    /\ lc_outs \in [1..Len(lc_sources) -> [first : LiveOutcomes, second : LiveOutcomes]]
    /\ \A j \in 1..Len(lc_sources) : lc_outs[j] \in LiveAnswers(lc_sources[j])
    /\ lc_i = 1
    /\ lc_documents = <<>>

LiveNext == LiveFetch \/ LiveReturn

SpecLive == LiveInit /\ [][LiveNext]_vars

\* any sequence of calls of start_scheduler and stop_scheduler
LifeInit ==
    /\ CoreOff
    /\ CallOff
    /\ CacheOff
    /\ SchedOff
    /\ IxOff
    /\ CqOff
    /\ LiveOff
    /\ SingleOff
    /\ sd_global = 0
    /\ sd_pc = "idle"
    /\ sd_state = <<>>
    /\ sd_jobs = <<>>
    /\ sd_initial = <<>>
    /\ sd_log = <<>>

LifeNext == start_scheduler \/ initial_sync \/ stop_scheduler

SpecLife == LifeInit /\ [][LifeNext]_vars

\* the handler threads call the getter of one module-level instance, each
\* up to MaxGets times, their steps interleaved
SingleInit ==
    /\ CoreOff
    /\ CallOff
    /\ CacheOff
    /\ SchedOff
    /\ IxOff
    /\ CqOff
    /\ LiveOff
    /\ LifeOff
    /\ sg_instance = 0
    /\ sg_pc = [t \in GetterThreads |-> "idle"]
    /\ sg_local = [t \in GetterThreads |-> 0]
    /\ sg_ret = [t \in GetterThreads |-> <<>>]
    /\ sg_made = 0

SingleNext ==
    \E t \in GetterThreads :
        \/ GetCall(t)
        \/ GetCheck(t)
        \/ GetConstruct(t)
        \/ GetAssign(t)
        \/ GetReturn(t)

SpecSingle == SingleInit /\ [][SingleNext]_vars
(***************************************************************************)
(* Properties of the chunker.                                              *)
(***************************************************************************)
ChunkDone == cpc = "done"

ChunkTokens(c) == UnitTokens(doc, c.text.units)

\* the units of chunk j + 1 that chunk j holds too
SharedUnits(j) ==
    SelectSeq(chunks_out[j + 1].text.units,
              LAMBDA u : \E m \in 1..Len(chunks_out[j].text.units) :
                             chunks_out[j].text.units[m] = u)

\* the words of a unit, of a chunk and of all chunks in index order
RECURSIVE FlatWords(_)
UnitWords(u) ==
    IF u.k = 0 THEN [m \in 1..doc.sents[u.s].n |-> Word(u.s, m)] ELSE <<u>>

FlatWords(units) ==
    IF units = <<>> THEN <<>> ELSE UnitWords(Head(units)) \o FlatWords(Tail(units))

RECURSIVE AllChunkWords(_)
AllChunkWords(j) ==
    IF j > Len(chunks_out) THEN <<>>
    ELSE FlatWords(chunks_out[j].text.units) \o AllChunkWords(j + 1)

\* q without the repetitions of an element that occurred before
FirstOccurrences(q) ==
    SelectSeq([m \in 1..Len(q) |-> [x |-> q[m], first |-> \A l \in 1..(m - 1) : q[l] # q[m]]],
              LAMBDA e : e.first)

InputWords == FlatWords(AllWhole(doc))

\* C3: every chunk chunk_document returns has at most chunk_size tokens
\* (the sum of the token counts of its units), overlap-seeded chunks included.
C3_ChunkWithinSize ==
    ChunkDone => \A j \in 1..Len(chunks_out) : ChunkTokens(chunks_out[j]) <= chunk_size

\* C4: the units two consecutive chunks share (the overlap carried from the
\* end of the earlier into the start of the later) total at most
\* chunk_overlap tokens.
C4_OverlapWithinBound ==
    ChunkDone =>
        \A j \in 1..(Len(chunks_out) - 1) : UnitTokens(doc, SharedUnits(j)) <= chunk_overlap

C4_Witness ==
    /\ ChunkDone
    /\ \E j \in 1..(Len(chunks_out) - 1) :
           /\ SharedUnits(j) # <<>>
           /\ UnitTokens(doc, SharedUnits(j)) = chunk_overlap

\* C5: the i-th of N chunks has chunk_index i, total_chunks N and the id
\* "{doc_id}-chunk-{i}"; the ids are pairwise distinct.
C5_ChunkIndexing ==
    ChunkDone =>
        /\ \A j \in 1..Len(chunks_out) :
               /\ chunks_out[j].chunk_index = j - 1
               /\ chunks_out[j].total_chunks = Len(chunks_out)
               /\ chunks_out[j].id = <<"d", "chunk", j - 1>>
        /\ \A j, m \in 1..Len(chunks_out) : chunks_out[j].id = chunks_out[m].id => j = m

C5_Witness == ChunkDone /\ Len(chunks_out) >= 3

\* C6: a non-empty text of at most chunk_size tokens gives exactly one chunk,
\* whose text is the input text unchanged, with chunk_index 0 and
\* total_chunks 1; the empty text gives no chunk.
C6_SmallTextVerbatim ==
    ChunkDone =>
        /\ (doc.sents = <<>> /\ doc.plain) => chunks_out = <<>>
        /\ (~(doc.sents = <<>> /\ doc.plain) /\ count_tokens_text(doc) <= chunk_size) =>
               /\ Len(chunks_out) = 1
               /\ chunks_out[1].text.units = [i \in 1..Len(doc.sents) |-> [s |-> i, k |-> 0]]
               /\ chunks_out[1].text.ws = (IF doc.plain THEN "normal" ELSE "original")
               /\ chunks_out[1].chunk_index = 0
               /\ chunks_out[1].total_chunks = 1

C6_Witness ==
    /\ ChunkDone
    /\ Len(doc.sents) >= 2
    /\ ~doc.plain
    /\ count_tokens_text(doc) <= chunk_size
    /\ Len(chunks_out) = 1

\* C7: when a text is split into more than one chunk, every unit of the
\* input is in some chunk and the first occurrences, chunk after chunk,
\* follow the input order (taken word by word, since an oversized unit is
\* spread over chunks word by word).
C7_NoUnitLostOrReordered ==
    (ChunkDone /\ Len(chunks_out) > 1) =>
        [m \in 1..Len(FirstOccurrences(AllChunkWords(1))) |->
            FirstOccurrences(AllChunkWords(1))[m].x] = InputWords

C7_Witness ==
    /\ ChunkDone
    /\ Len(chunks_out) > 2
    /\ \E j \in 1..(Len(chunks_out) - 1) : SharedUnits(j) # <<>>
    /\ \E j \in 1..Len(chunks_out) : \E m \in 1..Len(chunks_out[j].text.units) :
           chunks_out[j].text.units[m].k # 0

(***************************************************************************)
(* Properties of VectorStore.query.                                        *)
(***************************************************************************)
VectorDone == vs_pc = "done"

\* the index was asked and reported vs_in.matches
IndexReported == vs_in.index = "ok" /\ (vs_in.blank \/ vs_in.embed # "error")

Passing(i) == vs_in.matches[i].score >= similarity_threshold

\* the position in vs_in.matches of the k-th match at or above the threshold
KthPassing(k) ==
    CHOOSE i \in 1..Len(vs_in.matches) :
        Passing(i) /\ Cardinality({j \in 1..i : Passing(j)}) = k

\* C8: VectorStore.query returns exactly the matches the index reported
\* whose score is at least similarity_threshold, in the index's order.
C8_ThresholdFilter ==
    (VectorDone /\ IndexReported) =>
        /\ ~vs_out.raised
        /\ \A k \in 1..Len(vs_out.docs) : vs_out.docs[k].score >= similarity_threshold
        /\ Len(vs_out.docs) = Cardinality({i \in 1..Len(vs_in.matches) : Passing(i)})
        /\ \A k \in 1..Len(vs_out.docs) :
               /\ vs_out.docs[k].id = vs_in.matches[KthPassing(k)].id
               /\ vs_out.docs[k].score = vs_in.matches[KthPassing(k)].score
               /\ vs_out.docs[k].metadata = vs_in.matches[KthPassing(k)].metadata

C8_Witness ==
    /\ VectorDone
    /\ IndexReported
    /\ Len(vs_in.matches) = 3
    /\ vs_in.matches[1].score < similarity_threshold
    /\ vs_in.matches[2].score = similarity_threshold
    /\ vs_in.matches[3].score > similarity_threshold
    /\ Len(vs_out.docs) = 2

\* C9: whenever the embedding call, the lazy index initialization or the
\* index search fails, VectorStore.query returns an empty list and raises
\* nothing.
C9_QueryFailsSoft ==
    (VectorDone /\ ((~vs_in.blank /\ vs_in.embed = "error") \/ vs_in.index # "ok")) =>
        (~vs_out.raised /\ vs_out.docs = <<>>)

(***************************************************************************)
(* Properties of RAGQueryEngine.query.                                     *)
(***************************************************************************)
\* C1: query() never raises; it returns a dict with the keys answer,
\* sources, context_documents and classified_sources.
C1_QueryNeverRaises ==
    /\ q_pc # "raised"
    /\ q_pc = "returned" =>
           DOMAIN q_result = {"answer", "sources", "context_documents", "classified_sources"}

Ranked == q_pc \in {"live", "answer", "returned"}

\* C10: the final retrieved set holds no two results with the same id.
C10_RetrievedIdsDistinct ==
    \A j, m \in 1..Len(top_results) : top_results[j].id = top_results[m].id => j = m

C10_Witness ==
    /\ Ranked
    /\ search_queries = <<"q1", "q1">>
    /\ last_skipped.id # "none"
    /\ Len(top_results) >= 2

\* C11: the final retrieved set is sorted by score, highest first, has at
\* most retrieval_top_k members, and holds the retrieval_top_k best of the
\* deduplicated candidates (all of them when there are fewer).
C11_TopKByScore ==
    Ranked =>
        /\ \A j \in 1..(Len(top_results) - 1) : top_results[j].score >= top_results[j + 1].score
        /\ Len(top_results) <= retrieval_top_k
        /\ Len(top_results) = IF Len(all_results) < retrieval_top_k THEN Len(all_results)
                              ELSE retrieval_top_k
        /\ \A j \in 1..Len(top_results) : InSeq(top_results[j], all_results)
        /\ \A m \in 1..Len(all_results) :
               ~InSeq(all_results[m], top_results) =>
                   \A j \in 1..Len(top_results) : top_results[j].score >= all_results[m].score

\* more candidates than retrieval_top_k, found in an order that is not the
\* ranking, and a candidate left out
C11_Witness ==
    /\ Ranked
    /\ Len(all_results) > retrieval_top_k
    /\ Len(top_results) = retrieval_top_k
    /\ all_results[1].score < all_results[Len(all_results)].score
    /\ top_results[1].score > top_results[Len(top_results)].score

\* the decision of line 153 was taken
LiveDecided == q_pc \in {"answer", "returned"}

\* C12: with use_live_context, the source clients are asked for live
\* context if and only if fewer than 3 results were retrieved.
C12_LiveFetchIffFewResults ==
    /\ (LiveDecided /\ use_live_context) => (live_fetched <=> Len(top_results) < 3)
    /\ (Ranked /\ use_live_context /\ Len(top_results) >= 3) =>
           (~live_fetched /\ q_pc # "live" /\ live_documents = <<>>)

\* three retrieved and no live fetch
C12_Witness ==
    /\ q_pc = "returned"
    /\ use_live_context
    /\ Len(top_results) = 3
    /\ ~live_fetched

\* two retrieved and a live fetch
C12_WitnessFetched ==
    /\ q_pc = "returned"
    /\ use_live_context
    /\ Len(top_results) = 2
    /\ live_fetched

\* the retrieved chunk at rank j has a url
HasUrl(j) == top_results[j].metadata.url # "none"

\* the rank of the k-th retrieved chunk that has a url
KthWithUrl(k) ==
    CHOOSE j \in 1..Len(top_results) : HasUrl(j) /\ Cardinality({i \in 1..j : HasUrl(i)}) = k

\* the live document at position j brings a url that no retrieved chunk and
\* no earlier live document has
NewLiveUrl(j) ==
    /\ live_documents[j].url # "none"
    /\ \A i \in 1..Len(top_results) : top_results[i].metadata.url # live_documents[j].url
    /\ \A i \in 1..(j - 1) : live_documents[i].url # live_documents[j].url

KthNewLive(k) ==
    CHOOSE j \in 1..Len(live_documents) :
        NewLiveUrl(j) /\ Cardinality({i \in 1..j : NewLiveUrl(i)}) = k

NumWithUrl == Cardinality({j \in 1..Len(top_results) : HasUrl(j)})

NumNewLive == Cardinality({j \in 1..Len(live_documents) : NewLiveUrl(j)})

\* C13: the sources of the result are the urls of the retrieved chunks in
\* rank order, then the urls of the live documents not yet listed, in fetch
\* order, cut to the first 10.
C13_SourcesList ==
    q_pc = "returned" =>
        /\ Len(q_result.sources) <= 10
        /\ Len(q_result.sources) = IF NumWithUrl + NumNewLive > 10 THEN 10
                                   ELSE NumWithUrl + NumNewLive
        /\ \A k \in 1..Len(q_result.sources) :
               q_result.sources[k] =
                   IF k <= NumWithUrl THEN top_results[KthWithUrl(k)].metadata.url
                   ELSE live_documents[KthNewLive(k - NumWithUrl)].url

\* more than 10 urls, a retrieved chunk without a url and a live url that
\* is already listed
C13_Witness ==
    /\ q_pc = "returned"
    /\ NumWithUrl + NumNewLive > 10
    /\ NumWithUrl >= 1
    /\ NumWithUrl < Len(top_results)
    /\ \E j \in 1..Len(live_documents) : live_documents[j].url # "none" /\ ~NewLiveUrl(j)

(***************************************************************************)
(* Properties of the sync pipeline.                                        *)
(***************************************************************************)
\* C2: after a sync of a source that returned a count > 0, the index
\* entries of that source are exactly the chunks of the documents that
\* sync fetched.
C2_SyncReplacesGeneration ==
    (sync_pc = "idle" /\ sync_count > 0) =>
        {e \in index : e.source = sync_source} = {sync_documents[j] : j \in 1..Len(sync_documents)}

SourceEntries(source) == {e \in index : e.source = source}

SyncFailed == sync_pc = "idle" /\ sync_outcome \in {"setup_error", "fetch_error", "upsert_error"}

\* what holds of the syncs and of results at every moment of run_full_sync
FullSyncSafe ==
    /\ sync_pc \in {"idle", "fetch", "upsert"}
    /\ SyncFailed => sync_count = 0
    /\ Len(sync_results) <= 3
    /\ \A j \in 1..Len(sync_results) :
           /\ sync_results[j].source = <<"linear", "notion", "github">>[j]
           /\ sync_results[j].count \in Nat
    /\ (sync_pc = "idle" /\ sync_results # <<>>) =>
           sync_results[Len(sync_results)] = [source |-> sync_source, count |-> sync_count]

\* C18: no sync raises: a sync that meets an exception returns 0, and
\* run_full_sync runs linear, notion and github in this order and gets a
\* count from each, whatever the earlier ones did.
C18_FullSyncRunsAll == []FullSyncSafe /\ <>(Len(sync_results) = 3 /\ sync_pc = "idle")

\* linear and notion failed, github synced
C18_Witness ==
    /\ sync_mode = "full"
    /\ Len(sync_results) = 3
    /\ sync_results[1].count = 0
    /\ sync_results[2].count = 0
    /\ sync_results[3].count > 0
    /\ SourceEntries("linear") # {}
    /\ sync_outcome = "ok"

\* C19: a sync of linear or notion whose fetch yields no document returns
\* 0 and leaves the index as it was.
C19_EmptyFetchKeepsIndex ==
    [][(sync_pc = "idle" /\ sync_pc' = "idle" /\ sync_outcome' = "empty"
           /\ sync_source' \in {"linear", "notion"})
          => (index' = index /\ sync_count' = 0)]_vars

\* the entries of an earlier sync are there after an empty fetch
C19_Witness ==
    /\ sync_pc = "idle"
    /\ sync_outcome = "empty"
    /\ sync_source = "linear"
    /\ n_syncs = 2
    /\ SourceEntries("linear") # {}

\* C20: sync_github issues the delete of the github entries before the
\* fetch and before any upsert; when the delete succeeded, no github entry
\* is in the index at the fetch, nor after a fetch that yields nothing or
\* fails.
C20_GithubDeleteFirst ==
    sync_source = "github" =>
        /\ sync_pc \in {"fetch", "upsert"} => sync_delete # "none"
        /\ (sync_pc = "idle" /\ sync_outcome \in {"empty", "fetch_error", "upsert_error", "ok"}) =>
               sync_delete # "none"
        /\ (sync_pc = "fetch" /\ sync_delete = "ok") => SourceEntries("github") = {}
        /\ (sync_pc = "idle" /\ sync_outcome \in {"empty", "fetch_error"} /\ sync_delete = "ok") =>
               SourceEntries("github") = {}

\* a second run of sync_github, after one that wrote entries, at its fetch
C20_Witness ==
    /\ sync_source = "github"
    /\ sync_pc = "fetch"
    /\ sync_delete = "ok"
    /\ n_syncs = 2
    /\ sync_count > 0
    /\ sync_documents # <<>>
    /\ SourceEntries("github") = {}

RECURSIVE Flatten(_)
Flatten(batches) == IF batches = <<>> THEN <<>> ELSE Head(batches) \o Flatten(Tail(batches))

\* upsert_documents(sync_documents) was called and is over
UpsertOver == sync_pc = "idle" /\ sync_outcome \in {"ok", "upsert_error"}

UpsertFailure == ~upsert_call.embed_ok \/ upsert_call.failing # 0

\* C21: upsert_documents fails hard: when the embedding call or the write
\* of a batch fails it raises and returns no count; otherwise it returns
\* the number of documents, each written once under its id, in batches of
\* at most batch_size.
C21_UpsertFailsHard ==
    UpsertOver =>
        /\ UpsertFailure => (upsert_call.raised /\ upsert_call.count = 0 /\ sync_count = 0)
        /\ ~UpsertFailure =>
               /\ ~upsert_call.raised
               /\ upsert_call.count = Len(sync_documents)
               /\ Flatten(upsert_call.writes) = sync_documents
               /\ \A b \in 1..Len(upsert_call.writes) :
                      Len(upsert_call.writes[b]) >= 1 /\ Len(upsert_call.writes[b]) <= batch_size
               /\ \A j \in 1..Len(sync_documents) :
                      /\ sync_documents[j] \in index
                      /\ Cardinality({e \in index : e.id = sync_documents[j].id}) = 1

\* three documents written in two batches
C21_Witness ==
    /\ UpsertOver
    /\ ~UpsertFailure
    /\ Len(sync_documents) = 3
    /\ batch_size = 2
    /\ Len(upsert_call.writes) = 2
    /\ upsert_call.count = 3

\* the second batch failed after the first was written
C21_WitnessFailure ==
    /\ UpsertOver
    /\ upsert_call.failing = 2
    /\ Len(upsert_call.writes) = 1
    /\ upsert_call.raised

(***************************************************************************)
(* Properties of QuestionClassifier.classify and of                        *)
(* ClaudeClient.generate_search_queries.                                   *)
(***************************************************************************)
ClassifyDone == llm_pc = "done" /\ llm_op = "classify"

GenerateDone == llm_pc = "done" /\ llm_op = "generate_search_queries"

Known == {"linear", "notion", "github", "mixpanel", "datadog"}

\* the answer has a list of sources
IsSourcesList == llm_resp.kind = "sources_list"

\* the positions of the known tags in the answer
KnownAt(j) == llm_resp.sources[j] \in Known

KthKnown(k) ==
    CHOOSE j \in 1..Len(llm_resp.sources) :
        KnownAt(j) /\ Cardinality({i \in 1..j : KnownAt(i)}) = k

NumKnown == Cardinality({j \in 1..Len(llm_resp.sources) : KnownAt(j)})

\* C14: classify never raises, and returns [notion, linear] whenever the
\* answer is not the expected structure (not JSON, JSON that is no object,
\* a sources field that is no list), whenever no tag is a known source and
\* whenever the API call fails.
C14_ClassifyFallback ==
    ClassifyDone =>
        /\ llm_out.raised = "none"
        /\ (~IsSourcesList \/ NumKnown = 0) => llm_out.value = <<"notion", "linear">>

\* C15: what classify returns has between 1 and 3 tags and no tag twice.
C15_ClassifyOneToThreeTags ==
    (ClassifyDone /\ llm_out.raised = "none") =>
        /\ Len(llm_out.value) >= 1
        /\ Len(llm_out.value) <= 3
        /\ \A j, m \in 1..Len(llm_out.value) : llm_out.value[j] = llm_out.value[m] => j = m

\* C16: for an answer whose sources list holds at least one known tag,
\* classify returns exactly the known tags of the list, in their order.
C16_ClassifyKeepsKnownTags ==
    (ClassifyDone /\ IsSourcesList /\ NumKnown >= 1) =>
        /\ llm_out.raised = "none"
        /\ Len(llm_out.value) = NumKnown
        /\ \A k \in 1..Len(llm_out.value) :
               /\ llm_out.value[k] = llm_resp.sources[KthKnown(k)]
               /\ llm_out.value[k] \in Known

\* an unknown tag between two known ones
C16_Witness ==
    /\ ClassifyDone
    /\ llm_resp = [kind |-> "sources_list", sources |-> <<"github", "bogus", "linear">>]
    /\ llm_out.value = <<"github", "linear">>

\* C17: generate_search_queries returns between 1 and 3 queries, and
\* exactly the question whenever the answer is no JSON array of strings or
\* the API call fails.
C17_SearchQueriesOneToThree ==
    GenerateDone =>
        /\ Len(llm_out.value) >= 1
        /\ Len(llm_out.value) <= 3
        /\ llm_resp.kind # "string_list" => llm_out.value = <<"question">>

(***************************************************************************)
(* Properties of the cached decorator.                                     *)
(***************************************************************************)
\* C22: a call served from the cache returns the value the wrapped
\* operation returned on the miss that made the entry, and does not call
\* the operation.
C22_CacheTransparent ==
    cache_call.read = "hit" =>
        /\ cache_call.invoked = 0
        /\ cache_call.returned = cache_origin[cache_call.prefix]

\* C23: when the read or the write of the cache fails, the wrapped
\* operation is called exactly once, its result is returned and no error
\* of the cache reaches the caller.
C23_CacheFailureIsMiss ==
    (cache_call.read = "error" \/ cache_call.write = "error") =>
        /\ cache_call.invoked = 1
        /\ cache_call.raised \in {"none", "Exception"}
        /\ cache_call.raised = "none" =>
               (cache_call.result # Absent /\ cache_call.returned = cache_call.result)

\* the read and the write fail while Redis holds an entry under the key
C23_Witness ==
    /\ cache_call.read = "error"
    /\ cache_call.write = "error"
    /\ cache_call.raised = "none"
    /\ cache_call.returned = cache_call.result
    /\ cache_store[cache_call.prefix] # Absent
    /\ cache_store[cache_call.prefix] # Jsonify(cache_call.result)


(***************************************************************************)
(* C24: for every question passed to _process_question, whether the query  *)
(* engine returns or raises, the user receives exactly one final message,  *)
(* the answer blocks or the generic error blocks; it updates the thinking  *)
(* message when thinking_ts is present and is a new message otherwise; the *)
(* text of the exception is no part of it.                                 *)
(***************************************************************************)
ProcessDone == call_op = "_process_question" /\ call_pc = "done"

C24_OneFinalMessage ==
    ProcessDone =>
        /\ Len(call_out.sent) = 1
        /\ call_out.sent[1] \in {AnswerMessage(call_in.thinking_ts, call_in.thread_ts, call_out.answer),
                                 ErrorMessage(call_in.thinking_ts, call_in.thread_ts)}
        /\ call_out.sent[1].method =
               IF call_in.thinking_ts # NoTs THEN "chat_update" ELSE "chat_postMessage"
        /\ call_out.exc \notin {call_out.sent[1].blocks, call_out.sent[1].text}

\* what holds of every call: never two messages, never the exception's
\* text, and no message only when the Slack call of the except branch failed
C24_AtMostOneMessage ==
    ProcessDone =>
        /\ Len(call_out.sent) <= 1
        /\ \A i \in 1..Len(call_out.sent) :
               /\ call_out.sent[i] \in {AnswerMessage(call_in.thinking_ts, call_in.thread_ts, call_out.answer),
                                        ErrorMessage(call_in.thinking_ts, call_in.thread_ts)}
               /\ call_out.exc \notin {call_out.sent[i].blocks, call_out.sent[i].text}
        /\ (call_out.sent = <<>>) <=> (call_out.raised # "none")
        /\ call_in.engine.kind # "result" =>
               \A i \in 1..Len(call_out.sent) : call_out.sent[i].kind = "error"

(***************************************************************************)
(* C27: for every text and every max_length >= 0, truncate_text returns    *)
(* the text unchanged when its length is at most max_length, and otherwise *)
(* a string of exactly max_length characters that ends in "..."; the       *)
(* result is never longer than max_length.                                 *)
(***************************************************************************)
TruncateDone == call_op = "truncate_text" /\ call_pc = "done"

C27_TruncateExact ==
    TruncateDone =>
        /\ Len(call_in.text) <= call_in.max_length => call_out = call_in.text
        /\ Len(call_in.text) > call_in.max_length =>
               /\ Len(call_out) = call_in.max_length
               /\ SubSeq(call_out, Len(call_out) - 2, Len(call_out)) = Ellipsis
        /\ Len(call_out) <= call_in.max_length

\* what holds from max_length = 3 on
C27_TruncateFromThree ==
    (TruncateDone /\ call_in.max_length >= 3) =>
        /\ Len(call_in.text) <= call_in.max_length => call_out = call_in.text
        /\ Len(call_in.text) > call_in.max_length =>
               /\ Len(call_out) = call_in.max_length
               /\ SubSeq(call_out, Len(call_out) - 2, Len(call_out)) = Ellipsis

(***************************************************************************)
(* C25: at no time are two source syncs executing at once: each source's   *)
(* sync completes before the next begins, also between the initial sync of *)
(* start_scheduler's calling thread and the timer-triggered run_full_sync  *)
(* of the background scheduler.                                            *)
(***************************************************************************)
InSync == {t \in Threads : run_pc[t] = "in_sync"}

C25_OneSyncAtATime == Cardinality(InSync) <= 1

\* what holds: the timer's thread runs nothing before the scheduler is
\* started, and within one run a thread is in one sync at most, in the
\* order of run_full_sync
C25_OneSyncPerRun ==
    /\ sched_state = "none" => InSync = {}
    /\ \A t \in InSync : RunSource(t) \in {"linear", "notion", "github"}
    /\ \A t \in Threads : run_i[t] \in 0..NumSources

(***************************************************************************)
(* C30: the backing index is created at most once: create_index is called  *)
(* only when the index name is absent from the list of existing indexes,   *)
(* and never twice for the same name, also when the sync thread and a      *)
(* query thread access VectorStore.index for the first time concurrently.  *)
(***************************************************************************)
C30_CreatedAtMostOnce ==
    /\ \A i \in 1..Len(create_calls) : ~create_calls[i].listed
    /\ Len(create_calls) <= 1

\* what holds: no create_index after a list that held the name, none when
\* the index was there from the start, and one thread alone creates once
C30_CreateAfterAbsentList ==
    /\ \A i \in 1..Len(create_calls) : ~create_calls[i].listed
    /\ \A i, j \in 1..Len(create_calls) :
           create_calls[i].thread = create_calls[j].thread => i = j
    /\ \A t \in IxThreads : ix_pc[t] = "raised" => Len(create_calls) = 2

(***************************************************************************)
(* C26: embed_batch returns exactly one vector per input text, in input    *)
(* order: the vector at the position of every empty or whitespace-only     *)
(* input is the all-zero vector, the vector at the position of every other *)
(* input is the embedding the service returned for that text, and no       *)
(* request is sent when every input is empty.                              *)
(***************************************************************************)
EmbedReturned == call_op = "embed_batch" /\ call_pc = "done" /\ ~call_out.raised

\* the number of texts before position p that are not blank
NonBlankBefore(texts, p) == Cardinality({q \in 1..(p - 1) : Strip(texts[q]) # ""})

C26_EmbedBatchPositions ==
    /\ (call_op = "embed_batch" /\ call_pc = "done") =>
           /\ call_out.raised <=>
                  (call_in.service.kind = "error" /\ ValidTexts(call_in.texts, 0) # <<>>)
           /\ call_out.request.sent <=> (ValidTexts(call_in.texts, 0) # <<>>)
    /\ EmbedReturned =>
           /\ Len(call_out.value) = Len(call_in.texts)
           /\ \A p \in 1..Len(call_in.texts) :
                  /\ Strip(call_in.texts[p]) = "" => call_out.value[p] = ZeroVector
                  /\ (/\ Strip(call_in.texts[p]) # ""
                      /\ NonBlankBefore(call_in.texts, p) < call_in.service.n) =>
                         call_out.value[p] = Embedding(call_in.texts[p])

\* a blank text between two others, all embeddings returned: the second
\* embedding lands behind the blank
C26_Witness ==
    /\ EmbedReturned
    /\ Len(call_in.texts) = 3
    /\ Strip(call_in.texts[1]) # ""
    /\ Strip(call_in.texts[2]) = ""
    /\ Strip(call_in.texts[3]) # ""
    /\ call_in.texts[1] # call_in.texts[3]
    /\ call_in.service.n = 2
    /\ call_out.value = <<Embedding(call_in.texts[1]), ZeroVector, Embedding(call_in.texts[3])>>

\* every input blank: zero vectors and no request
C26_WitnessAllBlank ==
    /\ EmbedReturned
    /\ Len(call_in.texts) = 2
    /\ ~call_out.request.sent
    /\ call_out.value = <<ZeroVector, ZeroVector>>

(***************************************************************************)
(* C28: each retried source-client request is attempted at most three      *)
(* times per call and stops at the first success; when all three attempts  *)
(* fail, the failure is absorbed by the calling component's fallback: the  *)
(* client read operation returns an empty list, sync returns 0, and the    *)
(* live-context fetch skips that source.                                   *)
(***************************************************************************)
AllAttemptsFail == \A k \in 1..RetryAttempts : call_in.outcomes[k] # "ok"

FirstSuccess == CHOOSE k \in 1..RetryAttempts :
                    call_in.outcomes[k] = "ok" /\ \A j \in 1..(k - 1) : call_in.outcomes[j] # "ok"

RetryBounded ==
    /\ call_out.attempts <= RetryAttempts
    /\ (call_pc # "request" /\ ~AllAttemptsFail) =>
           (call_out.attempts = FirstSuccess /\ call_out.request = "returned")
    /\ (call_pc # "request" /\ AllAttemptsFail) => call_out.attempts = RetryAttempts

C28_RetryAbsorbed ==
    call_op = "get_recent_issues" =>
        /\ RetryBounded
        /\ (AllAttemptsFail /\ call_pc \in {"caller", "done"}) => call_out.read_op = "empty"
        /\ (AllAttemptsFail /\ call_pc = "done") =>
               call_out.caller = IF call_in.caller = "sync_linear"
                                 THEN "returned 0" ELSE "skipped"

\* what holds: the bound, the stop at the first success, and the fallback
\* of the two callers
C28_RetryBoundedCallersAbsorb ==
    call_op = "get_recent_issues" =>
        /\ RetryBounded
        /\ (AllAttemptsFail /\ call_pc = "done") =>
               call_out.caller = IF call_in.caller = "sync_linear"
                                 THEN "returned 0" ELSE "skipped"

(***************************************************************************)
(* C29: sync_github is not atomic with respect to concurrent queries:      *)
(* there is a reachable interleaving in which a query() runs after the     *)
(* delete of the github entries and before the upsert, retrieves no github *)
(* entry although github entries existed before the sync and exist after   *)
(* it, and therefore takes the live-fetch path.  As an invariant: a query  *)
(* whose retrievals all fall between the delete and the upsert retrieves   *)
(* no github entry, and fetches live context when fewer than three entries *)
(* of other sources are retrieved.                                         *)
(***************************************************************************)
CqGithubIds == {i \in cq.ids : i[1] = "github"}

C29_QueryInWindowSeesNoGithub ==
    /\ (cq.pc \in {"decide", "done"} /\ cq.window) => CqGithubIds = {}
    /\ cq.pc = "done" => (cq.live <=> Cardinality(cq.ids) < LiveThreshold)

\* the interleaving: the second sync_github replaces the entries of the
\* first, the query ran in its window, saw no github entry and fetched
\* live context, and the sync has written its entries since
C29_Witness ==
    /\ cq.pc = "done"
    /\ cq.window
    /\ cq.replaced
    /\ CqGithubIds = {}
    /\ cq.live
    /\ cq.run = n_syncs
    /\ sync_pc = "idle"
    /\ sync_outcome = "ok"
    /\ SourceEntries("github") # {}

\* what stands behind cq.replaced: with the syncs of github alone, a
\* count above 0 is the count of a sync_github whose entries stay in the
\* index until the next delete
C29_EntriesBeforeDelete ==
    (sync_pc = "idle" /\ sync_count > 0) => SourceEntries("github") # {}

(***************************************************************************)
(* C31: lazy initialization of the index terminates: after creating the    *)
(* index, the readiness poll runs at most 60 times and the index property  *)
(* then returns a handle, both when the index reports ready and when it    *)
(* never reports ready within the bound (no error is raised then).         *)
(***************************************************************************)
PollsBounded == \A t \in IxThreads : ix_polls[t] <= PollLimit

C31_IndexWaitTerminates ==
    /\ []PollsBounded
    /\ \A t \in IxThreads : (ix_pc[t] = "wait") ~> (ix_pc[t] = "got" /\ store_index = "Index")

\* the handle after 60 polls of an index that is still not ready
C31_Witness ==
    \E t \in IxThreads :
        /\ ix_pc[t] = "got"
        /\ ix_polls[t] = PollLimit
        /\ pinecone_status = "creating"
        /\ store_index = "Index"

\* ... and after a poll that found it ready
C31_WitnessReady ==
    \E t \in IxThreads :
        /\ ix_pc[t] = "got"
        /\ ix_polls[t] \in 1..(PollLimit - 1)
        /\ pinecone_status = "ready"

(***************************************************************************)
(* C32: upsert_documents embeds all texts before it writes any vector: if  *)
(* the embedding call fails, the index is unchanged by that upsert; if the *)
(* write of batch k fails, exactly the batches before k have been written  *)
(* and stay in the index.                                                  *)
(***************************************************************************)
BatchesBefore(k) == Flatten(SubSeq(Batches(sync_documents), 1, k - 1))

UpsertStep == sync_pc = "upsert" /\ sync_pc' = "idle"

C32_EmbedBeforeWrite ==
    [][UpsertStep =>
          /\ ~upsert_call'.embed_ok => index' = index
          /\ (upsert_call'.embed_ok /\ upsert_call'.failing # 0) =>
                 /\ index' = IndexUpsert(index, BatchesBefore(upsert_call'.failing))
                 /\ upsert_call'.writes = SubSeq(Batches(sync_documents), 1,
                                                 upsert_call'.failing - 1)
          /\ (upsert_call'.embed_ok /\ upsert_call'.failing = 0) =>
                 index' = IndexUpsert(index, sync_documents)]_vars

\* the write of the second batch failed: the first batch is in the index,
\* the rest of the documents is not
C32_Witness ==
    /\ UpsertOver
    /\ upsert_call.embed_ok
    /\ upsert_call.failing = 2
    /\ batch_size = 1
    /\ Len(sync_documents) >= 2
    /\ sync_documents[1] \in index
    /\ \A j \in 2..Len(sync_documents) : sync_documents[j] \notin index

\* the embedding failed: none of the documents is in the index
C32_WitnessEmbed ==
    /\ UpsertOver
    /\ ~upsert_call.embed_ok
    /\ n_syncs = 1
    /\ sync_documents # <<>>
    /\ index = {}

(***************************************************************************)
(* C33: a sync of source S never adds, removes or changes an index entry   *)
(* whose metadata source is not S: delete_by_source(S) removes only        *)
(* entries with source S, and every vector upserted by sync_S carries      *)
(* metadata source == S.                                                   *)
(***************************************************************************)
EntriesNotOf(idx, source) == {e \in idx : e.source # source}

C33_SyncTouchesOwnSource ==
    [][/\ EntriesNotOf(index', sync_source') = EntriesNotOf(index, sync_source')
       /\ sync_pc' = "upsert" =>
              \A j \in 1..Len(sync_documents') : sync_documents'[j].source = sync_source'
       /\ \A e \in index' \ index : e.source = sync_source']_vars

\* sync_github after sync_linear: its delete and its upsert are over, and
\* the entries of linear are there beside those of github
C33_Witness ==
    /\ sync_source = "github"
    /\ sync_pc = "idle"
    /\ sync_outcome = "ok"
    /\ sync_delete = "ok"
    /\ SourceEntries("linear") # {}
    /\ SourceEntries("github") # {}

ChunkUnits(j) == chunks_out[j].text.units

HasUnit(j, u) == \E m \in 1..Len(ChunkUnits(j)) : ChunkUnits(j)[m] = u

\* the words of the re-split sentences that some chunk holds
SplitWordsOut ==
    {u \in UNION {{ChunkUnits(j)[m] : m \in 1..Len(ChunkUnits(j))} : j \in 1..Len(chunks_out)} :
        u.k > 0}

\* no chunk holds a sentence in front of the words of a re-split one
PendingClosedFirst ==
    \A j \in 1..Len(chunks_out) :
        \A m \in 2..Len(ChunkUnits(j)) :
            ChunkUnits(j)[m].k > 0 => ChunkUnits(j)[m - 1].k > 0

\* a chunk of words alone has at most chunk_size tokens, the spaces counted
WordChunksWithinSize ==
    \A j \in 1..Len(chunks_out) :
        (\A m \in 1..Len(ChunkUnits(j)) : ChunkUnits(j)[m].k > 0) =>
            SumSeq([m \in 1..Len(ChunkUnits(j)) |->
                        count_tokens_spaced(doc, ChunkUnits(j)[m])]) <= chunk_size

NoWordTwice ==
    \A u \in SplitWordsOut : Cardinality({j \in 1..Len(chunks_out) : HasUnit(j, u)}) = 1

C35_OversizedUnitSplit ==
    ChunkDone => (PendingClosedFirst /\ WordChunksWithinSize /\ NoWordTwice)

(***************************************************************************)
(* C36: in _get_live_context a failure while fetching from one classified  *)
(* source neither discards nor prevents the documents of the others: the   *)
(* result is the concatenation, in the order of the classified sources, of *)
(* the documents of every source whose fetch succeeded, and the function   *)
(* never raises.                                                           *)
(***************************************************************************)
\* the fetch from the j-th source failed: a request of its client raised
SourceFailed(j) ==
    \/ lc_outs[j].first = "error"
    \/ /\ lc_sources[j] = "linear"
       /\ LiveDocs("linear", lc_outs[j].first) = <<>>
       /\ lc_outs[j].second = "error"

\* the documents the client of the j-th source delivered
SourceDocuments(j) ==
    IF lc_sources[j] = "linear" /\ LiveDocs("linear", lc_outs[j].first) = <<>>
    THEN RecentDocs("linear", lc_outs[j].second)
    ELSE LiveDocs(lc_sources[j], lc_outs[j].first)

RECURSIVE SucceededUpTo(_)
SucceededUpTo(n) ==
    IF n = 0 THEN <<>>
    ELSE SucceededUpTo(n - 1) \o (IF SourceFailed(n) THEN <<>> ELSE SourceDocuments(n))

C36_LiveFailureIsolated ==
    /\ lc_pc # "raised"
    /\ lc_pc = "loop" => lc_documents = SucceededUpTo(lc_i - 1)
    /\ lc_pc = "returned" => lc_documents = SucceededUpTo(Len(lc_sources))

\* the first source failed and the documents of the second were returned
C36_Witness ==
    /\ lc_pc = "returned"
    /\ Len(lc_sources) = 2
    /\ SourceFailed(1)
    /\ ~SourceFailed(2)
    /\ lc_documents # <<>>
    /\ lc_documents = SourceDocuments(2)

\* the second source failed and the documents of the first were kept
C36_WitnessLater ==
    /\ lc_pc = "returned"
    /\ Len(lc_sources) = 2
    /\ ~SourceFailed(1)
    /\ SourceFailed(2)
    /\ lc_documents # <<>>
    /\ lc_documents = SourceDocuments(1)

(***************************************************************************)
(* C37: a fallback is cached like a real result.  After classify returned  *)
(* the default pair, or query the apologetic answer, and the entry was     *)
(* written, a repeated call that reads the cache before the entry expires  *)
(* returns that same fallback without calling the function, so without a   *)
(* call of the model; once the entry has expired the function is called    *)
(* again.                                                                  *)
(***************************************************************************)
FallbackPrefixes == {"classify", "rag_query"}

\* the step is a call of the operation cached under prefix
IsCachedCall(prefix) == n_calls' = n_calls + 1 /\ cache_call'.prefix = prefix

C37_FallbackCached ==
    [][\A prefix \in FallbackPrefixes :
         IsCachedCall(prefix) =>
             /\ (cache_call'.result = FallbackResult(prefix) /\ cache_call'.write # "error")
                    => cache_store'[prefix] = FallbackResult(prefix)
             /\ (cache_store[prefix] = FallbackResult(prefix) /\ cache_call'.read # "error")
                    => /\ cache_call'.read = "hit"
                       /\ cache_call'.invoked = 0
                       /\ cache_call'.returned = FallbackResult(prefix)
                       /\ cache_store'[prefix] = FallbackResult(prefix)
             /\ cache_store[prefix] = Absent => cache_call'.invoked = 1]_vars

\* the second call of classify is served with the fallback of the first
C37_Witness ==
    /\ n_calls = 2
    /\ cache_call.prefix = "classify"
    /\ cache_call.read = "hit"
    /\ cache_call.invoked = 0
    /\ cache_call.returned = FallbackResult("classify")
    /\ cache_origin["classify"] = FallbackResult("classify")

\* the entry of query's apology expired and the third call ran query again
C37_WitnessExpired ==
    /\ n_calls = 3
    /\ cache_call.prefix = "rag_query"
    /\ cache_call.read = "miss"
    /\ cache_call.invoked = 1
    /\ cache_origin["rag_query"] = FallbackResult("rag_query")

(***************************************************************************)
(* C38: over any sequence of start_scheduler and stop_scheduler calls at   *)
(* most one scheduler exists, with at most one full_sync job:              *)
(* start_scheduler while one is running returns it, adds no job and runs   *)
(* no initial sync; stop_scheduler with none running changes nothing; a    *)
(* start after a stop makes a fresh scheduler and runs the initial sync    *)
(* once.                                                                   *)
(***************************************************************************)
LiveSchedulers == {s \in DOMAIN sd_state : sd_state[s] # "shutdown"}

OneSchedulerOneJob ==
    /\ Cardinality(LiveSchedulers) <= 1
    /\ \A s \in LiveSchedulers : sd_global = s
    /\ \A s \in DOMAIN sd_jobs : sd_jobs[s] <= 1
    /\ \A s \in DOMAIN sd_initial :
           sd_initial[s] = IF sd_pc = "initial_sync" /\ s = sd_global THEN 0 ELSE 1

\* the step finishes a call of op
FinishesCall(op) == Len(sd_log') = Len(sd_log) + 1 /\ sd_log'[Len(sd_log')].op = op

LifeCallStep ==
    /\ (FinishesCall("start") /\ sd_pc = "idle") =>
           /\ sd_global # 0
           /\ sd_log'[Len(sd_log')].returned = sd_global
           /\ UNCHANGED <<sd_global, sd_state, sd_jobs, sd_initial>>
    /\ (FinishesCall("stop") /\ sd_global = 0) =>
           UNCHANGED <<sd_global, sd_state, sd_jobs, sd_initial>>
    /\ (FinishesCall("stop") /\ sd_global # 0) =>
           (sd_global' = 0 /\ sd_state'[sd_global] = "shutdown")
    /\ (sd_pc = "idle" /\ sd_pc' = "initial_sync") =>
           /\ sd_global = 0
           /\ sd_global' \notin DOMAIN sd_state
           /\ sd_state'[sd_global'] = "running"
           /\ sd_jobs'[sd_global'] = 1
    /\ (FinishesCall("start") /\ sd_pc = "initial_sync") =>
           /\ sd_log'[Len(sd_log')].returned = sd_global
           /\ sd_initial'[sd_global] = 1
           /\ UNCHANGED <<sd_global, sd_state, sd_jobs>>

C38_OneSchedulerOverCalls == []OneSchedulerOneJob /\ [][LifeCallStep]_vars

\* start, start again, stop, stop again, start: the second scheduler runs
C38_Witness ==
    /\ Len(sd_log) = 5
    /\ [j \in 1..5 |-> sd_log[j].op] = <<"start", "start", "stop", "stop", "start">>
    /\ [j \in 1..5 |-> sd_log[j].returned] = <<1, 1, 0, 0, 2>>
    /\ sd_global = 2
    /\ sd_state = <<"shutdown", "running">>
    /\ sd_jobs = <<1, 1>>
    /\ sd_initial = <<1, 1>>

(***************************************************************************)
(* C39: the context_documents count that query() returns equals the number *)
(* of documents rendered into the prompt context: the retrieved chunks     *)
(* plus the live documents of the Live Context section, at most 5.         *)
(***************************************************************************)
RenderedDocuments == Len(top_results) + Len(RenderedLive(live_documents))

C39_CountIsRendered ==
    q_pc = "returned" =>
        /\ q_result.context_documents = RenderedDocuments
        /\ Len(RenderedLive(live_documents)) <= LiveRendered

(***************************************************************************)
(* C40: each lazily created process-wide singleton (get_rag_engine,        *)
(* get_classifier, get_claude_client, get_chunker, get_github_client) is   *)
(* constructed at most once and every call returns that same instance,     *)
(* also when the first calls come from concurrent handler threads.         *)
(***************************************************************************)
ReturnedInstances ==
    UNION {{sg_ret[t][j] : j \in 1..Len(sg_ret[t])} : t \in GetterThreads}

C40_SingletonOnce ==
    /\ sg_made <= 1
    /\ Cardinality(ReturnedInstances) <= 1
    /\ \A i \in ReturnedInstances : i # 0
====
